---- MODULE Spec2Model ----
(***************************************************************************)
(* A model of the dom-asm document-structure compiler: the diff/patch      *)
(* engine (DiffPatchEngine), the automaton minimizer                       *)
(* (StateMachineMinimizer), the scanner (HTMLTokenizer), the tree builder  *)
(* (HTMLParser), the tree optimizer (HTMLASTBuilder), the compile pipeline *)
(* (HTMLCompiler), the validator (BehavioralEquivalenceValidator), the AST *)
(* optimizer (HTMLAstOptimizer), the legacy tree builder (the HTMLParser   *)
(* of html/_legacy) and the style-sheet parser (CSSParser).                *)
(* Each component has its own variables, its own initial condition and its *)
(* own specification; Spec runs any one of them.                           *)
(***************************************************************************)
EXTENDS Integers, Sequences, FiniteSets, TLC

VARIABLES
    \* DiffPatchEngine (Node.ts 608-1398) and its caller DomASM (1411-1466)
    useKeyAttribute,   \* DiffOptions.useKeyAttribute ("" = switched off)
    oldAST,            \* root of the first tree handed to diff
    newAST,            \* root of the second tree handed to diff
    diffs,             \* the edit script returned by diff
    heap,              \* the objects of the tree being patched, by identity
    patchNext,         \* index of the next patch of the script to apply
    warnings,          \* number of "Could not find node at path" warnings
    dpc,               \* position of the diff/patch run
    \* StateMachineMinimizer (part_001)
    machine,           \* the StateMachine handed to minimize
    partition,         \* buildEquivalenceClasses: the current partition
    minimized,         \* the machine being built by mergeEquivalentStates
    mpc,               \* position of the minimize call
    \* HTMLTokenizer (html_tokenizer_implementation.ts)
    input,             \* the text handed to tokenize
    tokOptions,        \* the tokenizer's options
    scanner,           \* the tokenizer's position, tokens and errors
    tpc,               \* position of the tokenize call
    \* HTMLParser (part_004)
    ptokens,           \* the tokens handed to parse
    parserOptions,     \* the parser's options
    parser,            \* the tree, the stack, currentNode, the errors, the loop index
    ppc,               \* position of the parse call
    \* HTMLASTBuilder (part_005)
    optTree,           \* the tree handed to buildOptimizedAST
    optimizeFlag,      \* its optimize argument
    optOnce,           \* the tree returned for optTree
    optTwice,          \* the tree returned for optOnce
    minimizedNodes,    \* the builder's cache of optimized nodes
    optObjects,        \* the same trees and the same cache as objects
    opc,               \* position of the calls on the builder
    \* HTMLCompiler (part_004)
    compileInput,      \* the text handed to compile
    compileOptions,    \* the options after the defaults are applied
    compilation,       \* what the stages of compile have produced
    cpc,               \* position of the compile call
    \* BehavioralEquivalenceValidator (part_005)
    valOriginal,       \* the original tree handed to validateEquivalence
    valOptimized,      \* the optimized tree handed to validateEquivalence
    validation,        \* the stage results, the differences and the report
    vpc,               \* position of the validateEquivalence call
    \* HTMLAstOptimizer (ast/HTMLAstOptimizer.ts) and its caller DomASM
    asts,              \* the callers' ASTs: the tree below the root of each, by identity
    stateClasses,      \* the optimizer's Map of equivalence classes
    astMinimizedNodes, \* the optimizer's cache of optimized nodes
    optimization,      \* the last optimize call: its AST, the tree it saw and what it returned
    astCalls,          \* optimize and patch calls made so far
    apc,               \* position of the calls on the DomASM instance
    \* the legacy HTMLParser (html/_legacy/HTMLParser.ts)
    legacyTokens,      \* the tokens handed to buildOptimizedAST
    legacy,            \* the nodes, the stack, currentNode and the index of the next token
    lpc,               \* position of the buildOptimizedAST call
    \* CSSParser (css/parsing/CSSParserError.ts)
    cssTokens,         \* the types of the tokens handed to the parser
    css,               \* the parser's position and errors, the block being parsed, the loop iterations so far
    cssPc              \* position of the parse call

diffVars == <<useKeyAttribute, oldAST, newAST, diffs, heap, patchNext, warnings, dpc>>
minVars == <<machine, partition, minimized, mpc>>
tokVars == <<input, tokOptions, scanner, tpc>>
parseVars == <<ptokens, parserOptions, parser, ppc>>
optVars == <<optTree, optimizeFlag, optOnce, optTwice, minimizedNodes, optObjects, opc>>
compileVars == <<compileInput, compileOptions, compilation, cpc>>
valVars == <<valOriginal, valOptimized, validation, vpc>>
astVars == <<asts, stateClasses, astMinimizedNodes, optimization, astCalls, apc>>
legacyVars == <<legacyTokens, legacy, lpc>>
cssVars == <<cssTokens, css, cssPc>>

vars == <<diffVars, minVars, tokVars, parseVars, optVars, compileVars, valVars, astVars, legacyVars, cssVars>>

\* What the actions of one component leave alone.
notDiff == <<minVars, tokVars, parseVars, optVars, compileVars, valVars, astVars, legacyVars, cssVars>>
notMin == <<diffVars, tokVars, parseVars, optVars, compileVars, valVars, astVars, legacyVars, cssVars>>
notTok == <<diffVars, minVars, parseVars, optVars, compileVars, valVars, astVars, legacyVars, cssVars>>
notParse == <<diffVars, minVars, tokVars, optVars, compileVars, valVars, astVars, legacyVars, cssVars>>
notOpt == <<diffVars, minVars, tokVars, parseVars, compileVars, valVars, astVars, legacyVars, cssVars>>
notCompile == <<diffVars, minVars, tokVars, parseVars, optVars, valVars, astVars, legacyVars, cssVars>>
notVal == <<diffVars, minVars, tokVars, parseVars, optVars, compileVars, astVars, legacyVars, cssVars>>
notAst == <<diffVars, minVars, tokVars, parseVars, optVars, compileVars, valVars, legacyVars, cssVars>>
notLegacy == <<diffVars, minVars, tokVars, parseVars, optVars, compileVars, valVars, astVars, cssVars>>
notCss == <<diffVars, minVars, tokVars, parseVars, optVars, compileVars, valVars, astVars, legacyVars>>

(***************************************************************************)
(* Bounds of the model.                                                    *)
(***************************************************************************)
MaxKids == 2          \* children of a root in the trees handed to diff
MaxStates == 2        \* states of an automaton handed to minimize
MaxWord == 3          \* length of the symbol sequences run on an automaton
MaxFrags == 3         \* pieces of markup in a text handed to tokenize
MaxTokens == 4        \* tokens before the EOF token in a stream handed to parse
MaxOptKids == 3       \* children of a document handed to the builder
MaxPieces == 3        \* pieces of markup in a text handed to compile
MaxValKids == 2       \* children of a root in the trees handed to the validator

(***************************************************************************)
(* General helpers.                                                        *)
(***************************************************************************)
Min(a, b) == IF a < b THEN a ELSE b
Max(a, b) == IF a > b THEN a ELSE b

SeqsUpTo(S, n) == UNION {[1..k -> S] : k \in 0..n}

IsProperPrefix(p, q) == Len(p) < Len(q) /\ SubSeq(q, 1, Len(p)) = p

(***************************************************************************)
(* core/types Node (part_002 28-37) as a value.  An absent name or value   *)
(* is "", which is what the code's truthiness tests make of it; an absent  *)
(* attribute map is hasAttrs = FALSE.                                      *)
(***************************************************************************)
NoNode == [type |-> "None", name |-> "", value |-> "", hasAttrs |-> FALSE,
           attrs |-> {}, children |-> <<>>]

TextNode(v) == [type |-> "Text", name |-> "", value |-> v, hasAttrs |-> FALSE,
                attrs |-> {}, children |-> <<>>]

ElementNode(n, as, ch) == [type |-> "Element", name |-> n, value |-> "",
                           hasAttrs |-> TRUE, attrs |-> as, children |-> ch]

\* The root the legacy parser creates: an element without an attribute map.
RootNode(ch) == [type |-> "Element", name |-> "root", value |-> "",
                 hasAttrs |-> FALSE, attrs |-> {}, children |-> ch]

\* Map.has / Map.get on an attribute map kept as a set of <<key, value>>.
AttrHas(as, k) == \E p \in as : p[1] = k
AttrGet(as, k) == IF AttrHas(as, k) THEN (CHOOSE p \in as : p[1] = k)[2] ELSE ""
AttrKeys(as) == {p[1] : p \in as}

\* String.prototype.trim on the text values of the model.
Trim(s) == CASE s = " a" -> "a"
             [] s = "a " -> "a"
             [] s = " "  -> ""
             [] OTHER    -> s

(***************************************************************************)
(* The trees handed to diff.                                               *)
(***************************************************************************)
TextValues == {"a", " a", "b"}

DiffLeaves == {TextNode("a"), TextNode("b")}

DiffItems ==
    {ElementNode("li", {<<"key", "1">>}, <<TextNode("a")>>),
     ElementNode("li", {<<"key", "1">>, <<"class", "x">>}, <<>>),
     ElementNode("li", {<<"key", "2">>}, <<>>),
     ElementNode("p", {<<"key", "1">>}, <<>>)}

DiffLevel1 == DiffLeaves \cup DiffItems

DiffTrees == {RootNode(ch) : ch \in SeqsUpTo(DiffLevel1, MaxKids)}
             \cup {TextNode(v) : v \in TextValues}

(***************************************************************************)
(* Diff records (Node.ts 572-579).  Absent fields: node = NoNode,          *)
(* changes = {}, from = to = <<>>.  A change is <<key, "set", value>> or   *)
(* <<key, "null", "">> (the attribute is marked as removed).               *)
(***************************************************************************)
MkDiff(t, p, n, c, f, to) ==
    [type |-> t, path |-> p, node |-> n, changes |-> c, from |-> f, to |-> to]

RECURSIVE cloneNode(_)
cloneNode(node) ==
    [type |-> node.type,
     name |-> IF node.name # "" THEN node.name ELSE "",
     value |-> IF node.value # "" THEN node.value ELSE "",
     hasAttrs |-> node.hasAttrs,
     attrs |-> IF node.hasAttrs THEN node.attrs ELSE {},
     children |-> [i \in 1..Len(node.children) |-> cloneNode(node.children[i])]]

diffAttributes(oldNode, newNode) ==
    LET oldAttributes == IF oldNode.hasAttrs THEN oldNode.attrs ELSE {}
        newAttributes == IF newNode.hasAttrs THEN newNode.attrs ELSE {}
    IN  {<<p[1], "set", p[2]>> : p \in {q \in newAttributes :
              ~AttrHas(oldAttributes, q[1]) \/ AttrGet(oldAttributes, q[1]) # q[2]}}
        \cup {<<k, "null", "">> : k \in AttrKeys(oldAttributes) \ AttrKeys(newAttributes)}

ignoreWhitespace == TRUE

TextOf(node) == IF ignoreWhitespace THEN Trim(node.value) ELSE node.value

areNodesEqual(oldNode, newNode) ==
    IF oldNode.type # newNode.type THEN FALSE
    ELSE IF oldNode.type = "Text" /\ newNode.type = "Text"
         THEN TextOf(oldNode) = TextOf(newNode)
    ELSE IF oldNode.name # newNode.name THEN FALSE
    ELSE \A attr \in {"id", "class"} :
            /\ AttrHas(oldNode.attrs, attr) = AttrHas(newNode.attrs, attr)
            /\ AttrGet(oldNode.attrs, attr) = AttrGet(newNode.attrs, attr)

\* A matrix left at the zeros it is filled with.
LCSMatrixUnfilled(oldNodes, newNodes, i, j) == 0

\* matrix[i][j] of buildLCSMatrix, for the first i old and the first j new nodes.
RECURSIVE LCSMatrix(_, _, _, _)
LCSMatrix(oldNodes, newNodes, i, j) ==
    IF i = 0 \/ j = 0 THEN 0
    ELSE IF areNodesEqual(oldNodes[i], newNodes[j])
         THEN LCSMatrix(oldNodes, newNodes, i - 1, j - 1) + 1
         ELSE Max(LCSMatrix(oldNodes, newNodes, i - 1, j),
                  LCSMatrix(oldNodes, newNodes, i, j - 1))

\* extractMatchedPairs: the pairs <<oldIndex, newIndex>> (0-based), in
\* increasing order (the code pushes them backwards and reverses).
RECURSIVE extractMatchedPairs(_, _, _, _)
extractMatchedPairs(oldNodes, newNodes, i, j) ==
    IF i = 0 \/ j = 0 THEN <<>>
    ELSE IF areNodesEqual(oldNodes[i], newNodes[j])
         THEN Append(extractMatchedPairs(oldNodes, newNodes, i - 1, j - 1),
                     <<i - 1, j - 1>>)
    ELSE IF LCSMatrix(oldNodes, newNodes, i - 1, j)
              >= LCSMatrix(oldNodes, newNodes, i, j - 1)
         THEN extractMatchedPairs(oldNodes, newNodes, i - 1, j)
         ELSE extractMatchedPairs(oldNodes, newNodes, i, j - 1)

\* The key of a sibling: attributes?.get(useKeyAttribute), "" when it has none.
KeyOf(node, keyAttr) == IF node.hasAttrs THEN AttrGet(node.attrs, keyAttr) ELSE ""

\* newKeyMap of diffChildrenWithKeys: the last sibling carrying a key wins.
NewKeyIndex(newChildren, key, keyAttr) ==
    LET hits == {i \in 1..Len(newChildren) : KeyOf(newChildren[i], keyAttr) = key}
    IN  IF key = "" \/ hits = {} THEN -1
        ELSE (CHOOSE i \in hits : \A j \in hits : j <= i) - 1

RECURSIVE diffNodes(_, _, _, _)
RECURSIVE KeyedOldLoop(_, _, _, _, _)
RECURSIVE MatchedLoop(_, _, _, _, _, _)

\* diffChildrenWithKeys, first loop (839-872) from old child i on:
\* [diffs, processed] with processed the set of matched new indices.
KeyedOldLoop(oldChildren, newChildren, path, keyAttr, i) ==
    IF i > Len(oldChildren) THEN [diffs |-> <<>>, processed |-> {}]
    ELSE LET oldChild == oldChildren[i]
             oldIndex == i - 1
             oldKey == KeyOf(oldChild, keyAttr)
             newIndex == NewKeyIndex(newChildren, oldKey, keyAttr)
             rest == KeyedOldLoop(oldChildren, newChildren, path, keyAttr, i + 1)
         IN  IF oldKey # "" /\ newIndex >= 0
             THEN [diffs |->
                     (IF oldIndex # newIndex
                      THEN <<MkDiff("MOVE", Append(path, oldIndex), NoNode, {},
                                    Append(path, oldIndex), Append(path, newIndex))>>
                      ELSE <<>>)
                     \o diffNodes(oldChild, newChildren[newIndex + 1],
                                  Append(path, newIndex), keyAttr)
                     \o rest.diffs,
                   processed |-> {newIndex} \cup rest.processed]
             ELSE [diffs |-> <<MkDiff("REMOVE", Append(path, oldIndex), NoNode, {},
                                      <<>>, <<>>)>> \o rest.diffs,
                   processed |-> rest.processed]

\* The ADD loop shared by both strategies (875-884, 929-937).
RECURSIVE AddLoop(_, _, _, _)
AddLoop(newChildren, path, done, i) ==
    IF i > Len(newChildren) THEN <<>>
    ELSE (IF (i - 1) \notin done
          THEN <<MkDiff("ADD", Append(path, i - 1), cloneNode(newChildren[i]), {},
                        <<>>, <<>>)>>
          ELSE <<>>)
         \o AddLoop(newChildren, path, done, i + 1)

diffChildrenWithKeys(oldChildren, newChildren, path, keyAttr) ==
    LET r == KeyedOldLoop(oldChildren, newChildren, path, keyAttr, 1)
    IN  r.diffs \o AddLoop(newChildren, path, r.processed, 1)

\* diffChildrenWithoutKeys, the loop over the matched pairs (905-916).
MatchedLoop(oldChildren, newChildren, path, keyAttr, pairs, k) ==
    IF k > Len(pairs) THEN <<>>
    ELSE diffNodes(oldChildren[pairs[k][1] + 1], newChildren[pairs[k][2] + 1],
                   Append(path, pairs[k][2]), keyAttr)
         \o MatchedLoop(oldChildren, newChildren, path, keyAttr, pairs, k + 1)

RECURSIVE RemoveLoop(_, _, _, _)
RemoveLoop(oldChildren, path, matched, i) ==
    IF i > Len(oldChildren) THEN <<>>
    ELSE (IF (i - 1) \notin matched
          THEN <<MkDiff("REMOVE", Append(path, i - 1), NoNode, {}, <<>>, <<>>)>>
          ELSE <<>>)
         \o RemoveLoop(oldChildren, path, matched, i + 1)

diffChildrenWithoutKeys(oldChildren, newChildren, path, keyAttr) ==
    LET matchedPairs == extractMatchedPairs(oldChildren, newChildren,
                                            Len(oldChildren), Len(newChildren))
        oldMatched == {matchedPairs[k][1] : k \in 1..Len(matchedPairs)}
        newMatched == {matchedPairs[k][2] : k \in 1..Len(matchedPairs)}
    IN  MatchedLoop(oldChildren, newChildren, path, keyAttr, matchedPairs, 1)
        \o RemoveLoop(oldChildren, path, oldMatched, 1)
        \o AddLoop(newChildren, path, newMatched, 1)

diffChildren(oldNode, newNode, path, keyAttr) ==
    IF keyAttr # ""
    THEN diffChildrenWithKeys(oldNode.children, newNode.children, path, keyAttr)
    ELSE diffChildrenWithoutKeys(oldNode.children, newNode.children, path, keyAttr)

diffNodes(oldNode, newNode, path, keyAttr) ==
    IF oldNode = NoNode /\ newNode = NoNode THEN <<>>
    ELSE IF oldNode = NoNode
         THEN <<MkDiff("ADD", path, cloneNode(newNode), {}, <<>>, <<>>)>>
    ELSE IF newNode = NoNode
         THEN <<MkDiff("REMOVE", path, NoNode, {}, <<>>, <<>>)>>
    ELSE IF oldNode.type # newNode.type
         THEN <<MkDiff("REPLACE", path, cloneNode(newNode), {}, <<>>, <<>>)>>
    ELSE LET attrChanges == diffAttributes(oldNode, newNode)
             attrDiff == IF attrChanges # {}
                         THEN <<MkDiff("UPDATE", path, NoNode, attrChanges, <<>>, <<>>)>>
                         ELSE <<>>
         IN  IF oldNode.type = "Text" /\ newNode.type = "Text"
             THEN attrDiff \o
                  (IF TextOf(oldNode) # TextOf(newNode)
                   THEN <<MkDiff("UPDATE", path, NoNode,
                                 {<<"value", "set", newNode.value>>}, <<>>, <<>>)>>
                   ELSE <<>>)
             ELSE attrDiff \o diffChildren(oldNode, newNode, path, keyAttr)

(***************************************************************************)
(* Array.prototype.sort is stable: an insertion sort that puts x before    *)
(* the first element it is strictly smaller than gives the same order.     *)
(***************************************************************************)
RECURSIVE InsertByDepth(_, _)
InsertByDepth(x, s) ==
    IF s = <<>> THEN <<x>>
    ELSE IF Len(Head(s).path) - Len(x.path) < 0 THEN <<x>> \o s
    ELSE <<Head(s)>> \o InsertByDepth(x, Tail(s))

RECURSIVE SortByDepth(_)
SortByDepth(s) ==
    IF s = <<>> THEN <<>>
    ELSE InsertByDepth(s[Len(s)], SortByDepth(SubSeq(s, 1, Len(s) - 1)))

priorities(t) == CASE t = "REMOVE"  -> 0
                   [] t = "MOVE"    -> 1
                   [] t = "REPLACE" -> 2
                   [] t = "UPDATE"  -> 3
                   [] t = "ADD"     -> 4

\* The lexicographic part of the comparator (1112-1118).
RECURSIVE ComparePaths(_, _, _)
ComparePaths(a, b, i) ==
    IF i > Min(Len(a), Len(b)) THEN Len(a) - Len(b)
    ELSE IF a[i] # b[i] THEN a[i] - b[i]
    ELSE ComparePaths(a, b, i + 1)

CompareOps(a, b) ==
    LET priorityDiff == priorities(a.type) - priorities(b.type)
    IN  IF priorityDiff # 0 THEN priorityDiff
        ELSE IF a.type = "ADD" /\ b.type = "ADD" THEN Len(a.path) - Len(b.path)
        ELSE ComparePaths(a.path, b.path, 1)

\* A comparator that forgets the operation type and orders by path alone.
sortByPathOnly(s) ==
    LET RECURSIVE Ins(_, _)
        Ins(x, t) == IF t = <<>> THEN <<x>>
                     ELSE IF ComparePaths(x.path, Head(t).path, 1) < 0 THEN <<x>> \o t
                     ELSE <<Head(t)>> \o Ins(x, Tail(t))
        RECURSIVE Srt(_)
        Srt(t) == IF t = <<>> THEN <<>>
                  ELSE Ins(t[Len(t)], Srt(SubSeq(t, 1, Len(t) - 1)))
    IN  Srt(s)

RECURSIVE InsertByOrder(_, _)
InsertByOrder(x, s) ==
    IF s = <<>> THEN <<x>>
    ELSE IF CompareOps(x, Head(s)) < 0 THEN <<x>> \o s
    ELSE <<Head(s)>> \o InsertByOrder(x, Tail(s))

RECURSIVE sortDiffsByOperationOrder(_)
sortDiffsByOperationOrder(s) ==
    IF s = <<>> THEN <<>>
    ELSE InsertByOrder(s[Len(s)], sortDiffsByOperationOrder(SubSeq(s, 1, Len(s) - 1)))

\* markChildPathsAsProcessed: deletes the processed paths that extend path;
\* for the root path the prefix searched is "." and nothing is deleted.
markChildPathsAsProcessed(path, processedPaths) ==
    IF path = <<>> THEN processedPaths
    ELSE {p \in processedPaths : ~IsProperPrefix(path, p)}

\* The loop of optimizeDiffs (1046-1064) from diff i on.
RECURSIVE OptimizeLoop(_, _, _)
OptimizeLoop(sorted, i, processedPaths) ==
    IF i > Len(sorted) THEN <<>>
    ELSE LET diff == sorted[i]
             parentPath == SubSeq(diff.path, 1, Len(diff.path) - 1)
         IN  IF diff.path \in processedPaths
             THEN OptimizeLoop(sorted, i + 1, processedPaths)
             ELSE IF parentPath \in processedPaths /\ diff.type # "REMOVE"
             THEN OptimizeLoop(sorted, i + 1, processedPaths)
             ELSE LET added == processedPaths \cup {diff.path}
                      marked == IF diff.type \in {"REMOVE", "REPLACE"}
                                THEN markChildPathsAsProcessed(diff.path, added)
                                ELSE added
                  IN  <<diff>> \o OptimizeLoop(sorted, i + 1, marked)

optimizeDiffs(ds) ==
    sortDiffsByOperationOrder(OptimizeLoop(SortByDepth(ds), 1, {}))

diff(oldRoot, newRoot, keyAttr) ==
    optimizeDiffs(diffNodes(oldRoot, newRoot, <<>>, keyAttr))

(***************************************************************************)
(* Patches.  generatePatches renames ADD to CREATE and changes to          *)
(* attributes; the other fields are carried over.                          *)
(***************************************************************************)
generatePatch(d) ==
    [type |-> IF d.type = "ADD" THEN "CREATE" ELSE d.type,
     path |-> d.path, node |-> d.node, attributes |-> d.changes,
     from |-> d.from, to |-> d.to]

generatePatches(ds) == [i \in 1..Len(ds) |-> generatePatch(ds[i])]

(***************************************************************************)
(* The tree being patched is mutated in place and moveNode can put one     *)
(* object at two places, so it is kept as a heap: object i is heap[i] and  *)
(* its children are object identities.  The root of the patched tree is PatchRoot. *)
(***************************************************************************)
MkObj(node, kids) ==
    [type |-> node.type, name |-> node.name, value |-> node.value,
     hasAttrs |-> node.hasAttrs, attrs |-> node.attrs, kids |-> kids]

RECURSIVE AllocTree(_, _)
RECURSIVE AllocKids(_, _, _)
\* Allocates the children from the i-th on: [heap, ids].
AllocKids(h, children, i) ==
    IF i > Len(children) THEN [heap |-> h, ids |-> <<>>]
    ELSE LET first == AllocTree(h, children[i])
             rest == AllocKids(first.heap, children, i + 1)
         IN  [heap |-> rest.heap, ids |-> <<first.id>> \o rest.ids]

\* Allocates a copy of the value tree: [heap, id].
AllocTree(h, node) ==
    LET r == AllocKids(h, node.children, 1)
    IN  [heap |-> Append(r.heap, MkObj(node, r.ids)), id |-> Len(r.heap) + 1]

\* The value tree below object id; fuel bounds the depth (a moved object
\* can be reached twice).
RECURSIVE Unfold(_, _, _)
Unfold(h, id, fuel) ==
    [type |-> h[id].type, name |-> h[id].name, value |-> h[id].value,
     hasAttrs |-> h[id].hasAttrs, attrs |-> h[id].attrs,
     children |-> IF fuel = 0 THEN <<>>
                  ELSE [i \in 1..Len(h[id].kids) |-> Unfold(h, h[id].kids[i], fuel - 1)]]

RECURSIVE findNodeByPath(_, _, _)
\* The object at path below current; 0 is undefined.
findNodeByPath(h, current, path) ==
    IF path = <<>> THEN current
    ELSE IF Head(path) >= Len(h[current].kids) THEN 0
    ELSE findNodeByPath(h, h[current].kids[Head(path) + 1], Tail(path))

\* findParentNode returns undefined on every call (1396).
findParentNode(h, node) == 0

removeNode(h, node) ==
    LET parent == findParentNode(h, node)
    IN  IF parent # 0 /\ \E i \in 1..Len(h[parent].kids) : h[parent].kids[i] = node
        THEN LET index == CHOOSE i \in 1..Len(h[parent].kids) :
                              /\ h[parent].kids[i] = node
                              /\ \A j \in 1..(i - 1) : h[parent].kids[j] # node
             IN  [h EXCEPT ![parent].kids =
                      SubSeq(@, 1, index - 1) \o SubSeq(@, index + 1, Len(@))]
        ELSE h

createNode(h, parent, newNode) ==
    LET r == AllocTree(h, cloneNode(newNode))
    IN  [r.heap EXCEPT ![parent].kids = Append(@, r.id)]

updateNodeAttributes(h, node, attributes) ==
    LET changed == {c[1] : c \in attributes}
        kept == {p \in h[node].attrs : p[1] \notin changed}
        set == {<<c[1], c[3]>> : c \in {x \in attributes : x[2] # "null"}}
    IN  [h EXCEPT ![node].hasAttrs = TRUE, ![node].attrs = kept \cup set]

\* Object.assign(oldNode, clone): the clone has no name, value or attributes
\* property when the new node has none, and the old one then stays.
replaceNode(h, oldNode, newNode) ==
    LET clone == cloneNode(newNode)
        r == AllocKids(h, clone.children, 1)
    IN  [r.heap EXCEPT ![oldNode] =
            [type |-> clone.type,
             name |-> IF clone.name # "" THEN clone.name ELSE @.name,
             value |-> IF clone.value # "" THEN clone.value ELSE @.value,
             hasAttrs |-> IF clone.hasAttrs THEN TRUE ELSE @.hasAttrs,
             attrs |-> IF clone.hasAttrs THEN clone.attrs ELSE @.attrs,
             kids |-> r.ids]]

\* Array.prototype.splice(index, 0, x).
SpliceIn(s, index, x) ==
    LET at == Min(index, Len(s))
    IN  SubSeq(s, 1, at) \o <<x>> \o SubSeq(s, at + 1, Len(s))

moveNode(h, root, fromPath, toPath) ==
    LET sourceNode == findNodeByPath(h, root, fromPath)
        targetParent == findNodeByPath(h, root, SubSeq(toPath, 1, Len(toPath) - 1))
    IN  IF sourceNode = 0 \/ targetParent = 0 THEN h
        ELSE LET removed == removeNode(h, sourceNode)
                 targetIndex == toPath[Len(toPath)]
             IN  [removed EXCEPT ![targetParent].kids =
                      SpliceIn(@, targetIndex, sourceNode)]

\* An applyPatch that takes the root for a path that does not resolve.
applyPatchAtRoot(h, root, patch) ==
    LET found == findNodeByPath(h, root, patch.path)
        targetNode == IF found = 0 THEN root ELSE found
    IN  [warned |-> FALSE,
         heap |->
           CASE patch.type = "CREATE" ->
                  IF patch.node # NoNode THEN createNode(h, targetNode, patch.node)
                  ELSE h
             [] patch.type = "UPDATE" ->
                  IF patch.attributes # {}
                  THEN updateNodeAttributes(h, targetNode, patch.attributes)
                  ELSE h
             [] patch.type = "REPLACE" ->
                  IF patch.node # NoNode THEN replaceNode(h, targetNode, patch.node)
                  ELSE h
             [] patch.type = "REMOVE" -> removeNode(h, targetNode)
             [] patch.type = "MOVE" ->
                  IF patch.from # <<>> /\ patch.to # <<>>
                  THEN moveNode(h, root, patch.from, patch.to)
                  ELSE h]

\* applyPatch: [heap, warned].
applyPatch(h, root, patch) ==
    LET targetNode == findNodeByPath(h, root, patch.path)
    IN  IF targetNode = 0 THEN [heap |-> h, warned |-> TRUE]
        ELSE [warned |-> FALSE,
              heap |->
                CASE patch.type = "CREATE" ->
                       IF patch.node # NoNode THEN createNode(h, targetNode, patch.node)
                       ELSE h
                  [] patch.type = "UPDATE" ->
                       IF patch.attributes # {}
                       THEN updateNodeAttributes(h, targetNode, patch.attributes)
                       ELSE h
                  [] patch.type = "REPLACE" ->
                       IF patch.node # NoNode THEN replaceNode(h, targetNode, patch.node)
                       ELSE h
                  [] patch.type = "REMOVE" -> removeNode(h, targetNode)
                  [] patch.type = "MOVE" ->
                       IF patch.from # <<>> /\ patch.to # <<>>
                       THEN moveNode(h, root, patch.from, patch.to)
                       ELSE h]

(***************************************************************************)
(* The diff/patch run: DomASM.diff(oldAst, newAst), then                   *)
(* DomASM.patch(oldAst, diffs), one applyPatch per step.                   *)
(***************************************************************************)
DepthFuel == 4

\* The tree handed to patch is the caller's oldAst itself: its objects are
\* allocated first and its root is the last of them.
PatchRoot == AllocTree(<<>>, oldAST).id

PatchedTree == Unfold(heap, PatchRoot, DepthFuel)

IdleDiff ==
    /\ useKeyAttribute = "key"
    /\ oldAST = NoNode
    /\ newAST = NoNode
    /\ diffs = <<>>
    /\ heap = <<>>
    /\ patchNext = 0
    /\ warnings = 0
    /\ dpc = "idle"

InitDiffRun ==
    /\ useKeyAttribute \in {"key", ""}
    /\ oldAST \in DiffTrees
    /\ newAST \in DiffTrees
    /\ diffs = <<>>
    /\ heap = <<>>
    /\ patchNext = 0
    /\ warnings = 0
    /\ dpc = "start"

Diff ==
    /\ dpc = "start"
    /\ diffs' = diff(oldAST, newAST, useKeyAttribute)
    /\ dpc' = "diffed"
    /\ UNCHANGED <<useKeyAttribute, oldAST, newAST, heap, patchNext, warnings>>
    /\ UNCHANGED notDiff

PatchBegin ==
    /\ dpc = "diffed"
    /\ heap' = AllocTree(<<>>, oldAST).heap
    /\ patchNext' = 1
    /\ dpc' = IF diffs = <<>> THEN "patched" ELSE "patching"
    /\ UNCHANGED <<useKeyAttribute, oldAST, newAST, diffs, warnings>>
    /\ UNCHANGED notDiff

ApplyPatch ==
    /\ dpc = "patching"
    /\ LET r == applyPatch(heap, PatchRoot, generatePatches(diffs)[patchNext])
       IN  /\ heap' = r.heap
           /\ warnings' = IF r.warned THEN warnings + 1 ELSE warnings
    /\ patchNext' = patchNext + 1
    /\ dpc' = IF patchNext = Len(diffs) THEN "patched" ELSE "patching"
    /\ UNCHANGED <<useKeyAttribute, oldAST, newAST, diffs>>
    /\ UNCHANGED notDiff

(***************************************************************************)
(* StateMachineMinimizer (part_001).  A State (part_002 9-14) is           *)
(* [id, transitions, isAccepting]; transitions is the Map symbol -> target *)
(* id kept as a set of <<symbol, target>>; metadata is the empty Map.  A   *)
(* StateMachine is [states, initialState] with states in Map order.        *)
(***************************************************************************)
Symbols == {"a", "b"}

\* The orders in which the ids can have been inserted into machine.states.
StateIdOrders == {<<"initial", "q1", "q2">>, <<"q0", "initial", "q1">>}

\* The transition Maps of a state of a machine with the given ids.
TransitionMaps(ids) ==
    {t \in SUBSET (Symbols \X ids) : \A x, y \in t : x[1] = y[1] => x = y}

HasState(states, id) == \E i \in 1..Len(states) : states[i].id = id
StateOf(states, id) == states[CHOOSE i \in 1..Len(states) : states[i].id = id]

\* partition.findIndex(block => block.some(s => s.id === targetStateId))
FindBlock(part, targetStateId) ==
    LET hits == {k \in 1..Len(part) :
                    \E i \in 1..Len(part[k]) : part[k][i].id = targetStateId}
    IN  IF hits = {} THEN -1 ELSE (CHOOSE k \in hits : \A j \in hits : k <= j) - 1

\* The sorted, joined list of "symbol:block" strings (metadata adds nothing):
\* two signatures are the same string iff they are the same set of pairs.
getStateSignature(state, part) ==
    {<<t[1], FindBlock(part, t[2])>> : t \in state.transitions}

\* splitBlock's splitMap filled from state i on: groups in insertion order.
RECURSIVE SplitLoop(_, _, _, _)
SplitLoop(block, part, i, groups) ==
    IF i > Len(block) THEN groups
    ELSE LET signature == getStateSignature(block[i], part)
             at == {k \in 1..Len(groups) : groups[k].signature = signature}
         IN  SplitLoop(block, part, i + 1,
                 IF at = {}
                 THEN Append(groups, [signature |-> signature, states |-> <<block[i]>>])
                 ELSE [groups EXCEPT ![CHOOSE k \in at : TRUE].states =
                                          Append(@, block[i])])

\* splitBlock returning its block whole whatever the signatures are.
splitBlockNever(block, part) == <<block>>

splitBlock(block, part) ==
    IF Len(block) <= 1 THEN <<block>>
    ELSE LET groups == SplitLoop(block, part, 1, <<>>)
         IN  [k \in 1..Len(groups) |-> groups[k].states]

\* One pass of the while loop (49-65): [partition, changed].
RECURSIVE RefineLoop(_, _, _)
RefineLoop(part, k, acc) ==
    IF k > Len(part) THEN acc
    ELSE LET splits == splitBlock(part[k], part)
         IN  RefineLoop(part, k + 1,
                 IF Len(splits) > 1
                 THEN [partition |-> acc.partition \o splits, changed |-> TRUE]
                 ELSE [partition |-> Append(acc.partition, part[k]),
                       changed |-> acc.changed])

\* The pass with changed left false when a block splits.
refineRoundUnflagged(part) ==
    [partition |-> RefineLoop(part, 1, [partition |-> <<>>, changed |-> FALSE]).partition,
     changed |-> FALSE]

refineRound(part) == RefineLoop(part, 1, [partition |-> <<>>, changed |-> FALSE])

SelectStates(states, accepting) ==
    LET RECURSIVE Sel(_)
        Sel(i) == IF i > Len(states) THEN <<>>
                  ELSE (IF states[i].isAccepting = accepting THEN <<states[i]>> ELSE <<>>)
                       \o Sel(i + 1)
    IN  Sel(1)

initialPartition(states) ==
    LET accepting == SelectStates(states, TRUE)
        nonAccepting == SelectStates(states, FALSE)
    IN  (IF Len(accepting) > 0 THEN <<accepting>> ELSE <<>>)
        \o (IF Len(nonAccepting) > 0 THEN <<nonAccepting>> ELSE <<>>)

getBlockSignature(block, part) ==
    IF Len(block) = 0 THEN {} ELSE getStateSignature(block[1], part)

\* classesBySignature (68-75): Map.set replaces the block of a signature that
\* is already a key and keeps the key's place.
RECURSIVE ClassesLoop(_, _, _)
ClassesLoop(part, k, classes) ==
    IF k > Len(part) THEN classes
    ELSE LET signature == getBlockSignature(part[k], part)
             at == {c \in 1..Len(classes) : classes[c].signature = signature}
         IN  ClassesLoop(part, k + 1,
                 IF Len(part[k]) = 0 THEN classes
                 ELSE IF at = {}
                 THEN Append(classes, [signature |-> signature, states |-> part[k]])
                 ELSE [classes EXCEPT ![CHOOSE c \in at : TRUE].states = part[k]])

classesBySignature(part) == ClassesLoop(part, 1, <<>>)

\* `min_${representative.id}`
MinId(id) == CASE id = "initial" -> "min_initial"
               [] id = "q0" -> "min_q0"
               [] id = "q1" -> "min_q1"
               [] id = "q2" -> "min_q2"

\* stateMapping.get(id): the minimized id of the class holding id, "" if none.
StateMapping(classes, id) ==
    LET at == {c \in 1..Len(classes) : HasState(classes[c].states, id)}
    IN  IF at = {} THEN ""
        ELSE MinId(classes[CHOOSE c \in at : \A d \in at : d <= c].states[1].id)

mergeEquivalentStates(classes) ==
    LET minimizedStates ==
            [c \in 1..Len(classes) |->
                LET representative == classes[c].states[1]
                IN  [id |-> MinId(representative.id),
                     transitions |->
                        {<<t[1], StateMapping(classes, t[2])>> :
                            t \in {u \in representative.transitions :
                                      StateMapping(classes, u[2]) # ""}},
                     isAccepting |-> representative.isAccepting]]
        mapped == StateMapping(classes, "initial")
        initialStateId == IF mapped # "" THEN mapped
                          ELSE IF Len(minimizedStates) > 0 THEN minimizedStates[1].id
                          ELSE ""
    IN  [states |-> minimizedStates, initialState |-> initialStateId]

canCombineSymbols(symbols) == \A sym \in symbols : sym \in {"a", "b", "[ab]"}

\* combineSymbols: the character class of the characters of the symbols.
combineSymbols(symbols) ==
    LET chars == UNION {IF sym = "[ab]" THEN {"a", "b"} ELSE {sym} : sym \in symbols}
    IN  CASE chars = {"a", "b"} -> "[ab]"
          [] chars = {"a"} -> "[a]"
          [] chars = {"b"} -> "[b]"

optimizeStateTransitions(state) ==
    LET targets == {t[2] : t \in state.transitions}
        symbolsTo(targetId) == {t[1] : t \in {u \in state.transitions : u[2] = targetId}}
    IN  [state EXCEPT !.transitions =
            UNION {IF Cardinality(symbolsTo(targetId)) = 1
                   THEN {<<sym, targetId>> : sym \in symbolsTo(targetId)}
                   ELSE IF canCombineSymbols(symbolsTo(targetId))
                   THEN {<<combineSymbols(symbolsTo(targetId)), targetId>>}
                   ELSE {<<sym, targetId>> : sym \in symbolsTo(targetId)}
                   : targetId \in targets}]

optimizeTransitions(m) ==
    [m EXCEPT !.states = [i \in 1..Len(m.states) |-> optimizeStateTransitions(m.states[i])]]

\* The run of a machine on a symbol sequence: transitions.get(symbol) from
\* the initial state; the sequence is accepted when the run ends in an
\* accepting state.
RECURSIVE RunFrom(_, _, _)
RunFrom(m, id, w) ==
    IF ~HasState(m.states, id) THEN FALSE
    ELSE IF w = <<>> THEN StateOf(m.states, id).isAccepting
    ELSE LET next == {t \in StateOf(m.states, id).transitions : t[1] = Head(w)}
         IN  IF next = {} THEN FALSE
             ELSE RunFrom(m, (CHOOSE t \in next : TRUE)[2], Tail(w))

Accepts(m, w) == RunFrom(m, m.initialState, w)

NoMachine == [states |-> <<>>, initialState |-> ""]

IdleMin ==
    /\ machine = NoMachine
    /\ partition = <<>>
    /\ minimized = NoMachine
    /\ mpc = "idle"

InitMinRun ==
    /\ \E n \in 1..MaxStates, order \in StateIdOrders :
         \E tr \in [1..n -> TransitionMaps({order[i] : i \in 1..n})],
            acc \in [1..n -> BOOLEAN], init \in 1..n :
             machine = [states |-> [i \in 1..n |->
                                       [id |-> order[i], transitions |-> tr[i],
                                        isAccepting |-> acc[i]]],
                        initialState |-> order[init]]
    /\ partition = <<>>
    /\ minimized = NoMachine
    /\ mpc = "start"

\* buildEquivalenceClasses, up to the loop (39-46).
MinimizeBegin ==
    /\ mpc = "start"
    /\ partition' = initialPartition(machine.states)
    /\ mpc' = "refining"
    /\ UNCHANGED <<machine, minimized>>
    /\ UNCHANGED notMin

\* One iteration of the refinement loop (49-65).
RefineRound ==
    /\ mpc = "refining"
    /\ partition' = refineRound(partition).partition
    /\ mpc' = IF refineRound(partition).changed THEN "refining" ELSE "refined"
    /\ UNCHANGED <<machine, minimized>>
    /\ UNCHANGED notMin

\* The rest of phase 1 and phase 2 (68-77, 159-224).
MergeStates ==
    /\ mpc = "refined"
    /\ minimized' = mergeEquivalentStates(classesBySignature(partition))
    /\ mpc' = "merged"
    /\ UNCHANGED <<machine, partition>>
    /\ UNCHANGED notMin

\* Phase 3 (233-272); minimize returns.
OptimizeTransitions ==
    /\ mpc = "merged"
    /\ minimized' = optimizeTransitions(minimized)
    /\ mpc' = "done"
    /\ UNCHANGED <<machine, partition>>
    /\ UNCHANGED notMin

NextMin == MinimizeBegin \/ RefineRound \/ MergeStates \/ OptimizeTransitions

(***************************************************************************)
(* HTMLTokenizer (html_tokenizer_implementation.ts).  A string is the      *)
(* sequence of its characters; positions count from 0 as in the source.    *)
(* The scanner's fields position, tokens and errors are the record sc;     *)
(* line and column are functions of the position, since only advance       *)
(* changes the three of them.  A token's raw field is                      *)
(* input.slice(start, end) and is not stored.                              *)
(***************************************************************************)
NUL == "NUL"                  \* the '\0' that peek and advance give at the end
Undefined == <<"undefined">>  \* a field that was never assigned

UpperOf == [c \in {"a", "b", "c", "d", "e", "i", "l", "m", "n", "o", "p", "s", "t", "u",
                   "v", "y"} |->
              CASE c = "a" -> "A" [] c = "b" -> "B" [] c = "c" -> "C" [] c = "d" -> "D"
                [] c = "e" -> "E" [] c = "i" -> "I" [] c = "l" -> "L" [] c = "m" -> "M"
                [] c = "n" -> "N" [] c = "v" -> "V"
                [] c = "o" -> "O" [] c = "p" -> "P" [] c = "s" -> "S" [] c = "t" -> "T"
                [] c = "u" -> "U" [] c = "y" -> "Y"]

toLowerCase(c) ==
    IF \E l \in DOMAIN UpperOf : UpperOf[l] = c
    THEN CHOOSE l \in DOMAIN UpperOf : UpperOf[l] = c
    ELSE c

isWhitespace(c) == c \in {" ", "\n", "\t"}
isAlpha(c) == c \in DOMAIN UpperOf \cup {UpperOf[l] : l \in DOMAIN UpperOf} \cup {"h", "r"}
isDigit(c) == c \in {"0", "1"}
isAlphaNumeric(c) == isAlpha(c) \/ isDigit(c)

isAtEnd(inp, p) == p >= Len(inp)
peek(inp, p) == IF p >= Len(inp) THEN NUL ELSE inp[p + 1]
advance(inp, p) == IF isAtEnd(inp, p) THEN p ELSE p + 1
Slice(inp, a, b) == [i \in 1..(b - a) |-> inp[a + i]]

LineAt(inp, p) == 1 + Cardinality({i \in 1..p : inp[i] = "\n"})
ColumnAt(inp, p) ==
    LET breaks == {i \in 1..p : inp[i] = "\n"}
    IN  1 + p - (IF breaks = {} THEN 0 ELSE CHOOSE i \in breaks : \A j \in breaks : j <= i)

checkString(inp, p, str) == \A i \in 1..Len(str) : peek(inp, p + i - 1) = str[i]
checkStringIgnoreCase(inp, p, str) ==
    \A i \in 1..Len(str) : toLowerCase(peek(inp, p + i - 1)) = toLowerCase(str[i])
\* match and matchIgnoreCase: the position after the call.
match(inp, p, str) == IF checkString(inp, p, str) THEN p + Len(str) ELSE p
matchIgnoreCase(inp, p, str) == IF checkStringIgnoreCase(inp, p, str) THEN p + Len(str) ELSE p

\* The loops `while (!isAtEnd() && !Stop) advance()`: the position they end at.
ScanUntil(inp, p, Stop(_)) ==
    CHOOSE q \in p..Len(inp) : /\ q = Len(inp) \/ Stop(q)
                               /\ \A r \in p..(q - 1) : ~Stop(r)

skipWhitespace(inp, p) == ScanUntil(inp, p, LAMBDA q : ~isWhitespace(peek(inp, q)))
skipUntil(inp, p, target) == ScanUntil(inp, p, LAMBDA q : checkString(inp, q, target))
readTagName(inp, p) ==
    ScanUntil(inp, p, LAMBDA q : ~(isAlphaNumeric(peek(inp, q)) \/ peek(inp, q) \in {"-", "_", ":"}))
readIdentifier(inp, p) ==
    ScanUntil(inp, p, LAMBDA q : ~(isAlphaNumeric(peek(inp, q)) \/ peek(inp, q) \in {"-", "_"}))
readAttributeName(inp, p) ==
    ScanUntil(inp, p, LAMBDA q : peek(inp, q) \in {"=", ">", "/"} \/ isWhitespace(peek(inp, q)))

MkError(message, offset) == [message |-> message, offset |-> offset]

\* readQuotedString: [position, value, errors].
RECURSIVE QuotedLoop(_, _, _, _)
QuotedLoop(inp, p, quote, value) ==
    IF isAtEnd(inp, p) \/ peek(inp, p) = quote THEN [position |-> p, value |-> value]
    ELSE IF peek(inp, p) = "\\"
    THEN IF isAtEnd(inp, p + 1) THEN QuotedLoop(inp, p + 1, quote, value)
         ELSE QuotedLoop(inp, p + 2, quote, Append(value, inp[p + 2]))
    ELSE QuotedLoop(inp, p + 1, quote, Append(value, inp[p + 1]))

readQuotedString(inp, p, errors) ==
    LET quote == peek(inp, p)
        r == QuotedLoop(inp, advance(inp, p), quote, <<>>)
    IN  IF ~isAtEnd(inp, r.position)
        THEN [position |-> r.position + 1, value |-> r.value, errors |-> errors]
        ELSE [position |-> r.position, value |-> r.value,
              errors |-> Append(errors, MkError("Unterminated quoted string", r.position))]

readAttributeValue(inp, p, errors) ==
    IF peek(inp, p) \in {"\"", "'"} THEN readQuotedString(inp, p, errors)
    ELSE LET q == ScanUntil(inp, p, LAMBDA r : isWhitespace(peek(inp, r)) \/ peek(inp, r) = ">")
         IN  [position |-> q, value |-> Slice(inp, p, q), errors |-> errors]

\* attributes.set(name, value) on the Map kept as a set of <<name, value>>.
MapSet(attributes, name, value) ==
    {a \in attributes : a[1] # name} \cup {<<name, value>>}

\* readAttributes: [position, attributes, errors].
RECURSIVE readAttributes(_, _, _, _)
readAttributes(inp, p, attributes, errors) ==
    IF isAtEnd(inp, p) \/ peek(inp, p) \in {">", "/"} \/ checkString(inp, p, <<"?", ">">>)
    THEN [position |-> p, attributes |-> attributes, errors |-> errors]
    ELSE LET p1 == skipWhitespace(inp, p)
             p2 == readAttributeName(inp, p1)
             p3 == skipWhitespace(inp, p2)
             v == IF checkString(inp, p3, <<"=">>)
                  THEN readAttributeValue(inp, skipWhitespace(inp, p3 + 1), errors)
                  ELSE [position |-> p3, value |-> <<>>, errors |-> errors]
         IN  IF peek(inp, p1) \in {">", "/"}
             THEN [position |-> p1, attributes |-> attributes, errors |-> errors]
             ELSE readAttributes(inp, v.position,
                                 MapSet(attributes, Slice(inp, p1, p2), v.value), v.errors)

\* A token with the fields every token type has; the others are Undefined.
MkToken(inp, type, start, end) ==
    [type |-> type, start |-> start, end |-> end,
     line |-> LineAt(inp, end), column |-> ColumnAt(inp, end),
     name |-> Undefined, attributes |-> {}, selfClosing |-> FALSE,
     content |-> Undefined, isWhitespace |-> FALSE,
     data |-> Undefined, condition |-> Undefined,
     publicId |-> Undefined, systemId |-> Undefined]

\* The tail of handleStartTag and handleEndTag: `if (!this.match('>')) ...`.
ExpectGt(inp, opts, p, errors, message) ==
    IF checkString(inp, p, <<">">>) THEN [position |-> p + 1, errors |-> errors]
    ELSE [position |-> IF opts.errorRecovery
                       THEN advance(inp, skipUntil(inp, p, <<">">>)) ELSE p,
          errors |-> Append(errors, MkError(message, p))]

handleStartTag(inp, opts, sc) ==
    LET start == sc.position - 1
        p1 == readTagName(inp, sc.position)
        a == readAttributes(inp, p1, {}, sc.errors)
        p2 == skipWhitespace(inp, a.position)
        selfClosing == checkString(inp, p2, <<"/">>)
        g == ExpectGt(inp, opts, match(inp, p2, <<"/">>), a.errors, "Expected \">\" after tag")
    IN  [position |-> g.position, errors |-> g.errors,
         tokens |-> Append(sc.tokens,
             [MkToken(inp, "StartTag", start, g.position) EXCEPT
                 !.name = Slice(inp, sc.position, p1),
                 !.attributes = a.attributes, !.selfClosing = selfClosing])]

\* A handleEndTag whose span starts one character before the "</".
handleEndTagEarlyStart(inp, opts, sc) ==
    LET start == sc.position - 3
        p1 == readTagName(inp, sc.position)
        g == ExpectGt(inp, opts, skipWhitespace(inp, p1), sc.errors,
                      "Expected \">\" after end tag")
    IN  [position |-> g.position, errors |-> g.errors,
         tokens |-> Append(sc.tokens,
             [MkToken(inp, "EndTag", start, g.position) EXCEPT
                 !.name = Slice(inp, sc.position, p1)])]

handleEndTag(inp, opts, sc) ==
    LET start == sc.position - 2
        p1 == readTagName(inp, sc.position)
        g == ExpectGt(inp, opts, skipWhitespace(inp, p1), sc.errors,
                      "Expected \">\" after end tag")
    IN  [position |-> g.position, errors |-> g.errors,
         tokens |-> Append(sc.tokens,
             [MkToken(inp, "EndTag", start, g.position) EXCEPT
                 !.name = Slice(inp, sc.position, p1)])]

handleText(inp, opts, sc) ==
    LET start == sc.position - 1
        q == ScanUntil(inp, sc.position, LAMBDA r : peek(inp, r) = "<")
        content == Slice(inp, start, q)
        isWs == \A i \in 1..Len(content) : isWhitespace(content[i])
    IN  [position |-> q, errors |-> sc.errors,
         tokens |-> IF ~isWs \/ opts.preserveWhitespace
                    THEN Append(sc.tokens,
                             [MkToken(inp, "Text", start, q) EXCEPT
                                 !.content = content, !.isWhitespace = isWs])
                    ELSE sc.tokens]

\* The loops of handleComment and handleCDATA:
\* `while (!isAtEnd() && !match(terminator)) data += advance()`.
ReadUntilMatch(inp, p, terminator) ==
    LET q == skipUntil(inp, p, terminator)
    IN  [data |-> Slice(inp, p, q), position |-> match(inp, q, terminator)]

\* A handleComment that reports nothing at the end of the input.
handleCommentSilent(inp, opts, sc) ==
    LET start == sc.position - 3
        r == ReadUntilMatch(inp, sc.position, <<"-", "-", ">">>)
    IN  [position |-> r.position,
         errors |-> sc.errors,
         tokens |-> IF opts.includeComments
                    THEN Append(sc.tokens,
                             [MkToken(inp, "Comment", start, r.position) EXCEPT
                                 !.data = r.data])
                    ELSE sc.tokens]

handleComment(inp, opts, sc) ==
    LET start == sc.position - 3
        r == ReadUntilMatch(inp, sc.position, <<"-", "-", ">">>)
    IN  [position |-> r.position,
         errors |-> IF isAtEnd(inp, r.position)
                    THEN Append(sc.errors, MkError("Unterminated comment", start))
                    ELSE sc.errors,
         tokens |-> IF opts.includeComments
                    THEN Append(sc.tokens,
                             [MkToken(inp, "Comment", start, r.position) EXCEPT
                                 !.data = r.data])
                    ELSE sc.tokens]

handleConditionalComment(inp, opts, sc) ==
    IF ~opts.includeConditionalComments
    THEN [sc EXCEPT !.position = advance(inp, skipUntil(inp, sc.position, <<"]", ">">>))]
    ELSE LET start == sc.position - 2
             p1 == advance(inp, sc.position)
             p2 == ScanUntil(inp, p1, LAMBDA r : peek(inp, r) = "]")
             p3 == match(inp, p2, <<"]", ">">>)
         IN  [position |-> p3, errors |-> sc.errors,
              tokens |-> IF checkString(inp, p2, <<"]", ">">>)
                         THEN Append(sc.tokens,
                                  [MkToken(inp, "ConditionalComment", start, p3) EXCEPT
                                      !.condition = Slice(inp, p1, p2), !.content = <<>>])
                         ELSE sc.tokens]

handleCDATA(inp, opts, sc) ==
    LET start == sc.position - 9
        r == ReadUntilMatch(inp, sc.position, <<"]", "]", ">">>)
    IN  [position |-> r.position,
         errors |-> IF isAtEnd(inp, r.position)
                    THEN Append(sc.errors, MkError("Unterminated CDATA section", start))
                    ELSE sc.errors,
         tokens |-> Append(sc.tokens,
                        [MkToken(inp, "CDATA", start, r.position) EXCEPT !.content = r.data])]

handleDoctype(inp, opts, sc) ==
    LET start == sc.position - 9
        p1 == skipWhitespace(inp, sc.position)
        p2 == readIdentifier(inp, p1)
        p3 == skipWhitespace(inp, p2)
        isPublic == checkStringIgnoreCase(inp, p3, <<"P", "U", "B", "L", "I", "C">>)
        isSystem == ~isPublic /\ checkStringIgnoreCase(inp, p3, <<"S", "Y", "S", "T", "E", "M">>)
        pub == readQuotedString(inp, skipWhitespace(inp, p3 + 6), sc.errors)
        sys == IF isPublic
               THEN readQuotedString(inp, skipWhitespace(inp, pub.position), pub.errors)
               ELSE readQuotedString(inp, skipWhitespace(inp, p3 + 6), sc.errors)
        p4 == skipWhitespace(inp, IF isPublic \/ isSystem THEN sys.position ELSE p3)
        errs == IF isPublic \/ isSystem THEN sys.errors ELSE sc.errors
        p5 == match(inp, p4, <<">">>)
    IN  [position |-> p5,
         errors |-> IF checkString(inp, p4, <<">">>) THEN errs
                    ELSE Append(errs, MkError("Expected \">\" after DOCTYPE", p4)),
         tokens |-> Append(sc.tokens,
                        [MkToken(inp, "Doctype", start, p5) EXCEPT
                            !.name = Slice(inp, p1, p2),
                            !.publicId = IF isPublic THEN pub.value ELSE Undefined,
                            !.systemId = IF isPublic \/ isSystem THEN sys.value ELSE Undefined])]

handleInvalidMarkup(inp, opts, sc) ==
    [sc EXCEPT !.errors = Append(@, MkError("Invalid markup sequence", sc.position)),
               !.position = IF opts.errorRecovery
                            THEN advance(inp, skipUntil(inp, sc.position, <<">">>))
                            ELSE sc.position]

\* handleLessThan, entered with the position after the '<'.
handleLessThan(inp, opts, sc) ==
    LET p == sc.position
        after(n) == [sc EXCEPT !.position = p + n]
    IN  IF peek(inp, p) = "!"
        THEN IF checkString(inp, p + 1, <<"-", "-">>) THEN handleComment(inp, opts, after(3))
             ELSE IF checkString(inp, p + 1, <<"[", "C", "D", "A", "T", "A", "[">>)
             THEN handleCDATA(inp, opts, after(8))
             ELSE IF checkStringIgnoreCase(inp, p + 1, <<"D", "O", "C", "T", "Y", "P", "E">>)
             THEN handleDoctype(inp, opts, after(8))
             ELSE IF peek(inp, p + 1) = "[" THEN handleConditionalComment(inp, opts, after(1))
             ELSE handleInvalidMarkup(inp, opts, after(1))
        ELSE IF peek(inp, p) = "/" THEN handleEndTag(inp, opts, after(1))
        ELSE IF isAlpha(peek(inp, p)) \/ peek(inp, p) = "_" THEN handleStartTag(inp, opts, sc)
        ELSE handleText(inp, opts, sc)

\* A scanToken that puts the character back when its handler has read no
\* further character.
scanTokenUnread(inp, opts, sc) ==
    LET next == [sc EXCEPT !.position = advance(inp, sc.position)]
        r == IF peek(inp, sc.position) = "<" THEN handleLessThan(inp, opts, next)
             ELSE handleText(inp, opts, next)
    IN  [r EXCEPT !.position = IF @ = next.position THEN sc.position ELSE @]

scanToken(inp, opts, sc) ==
    LET next == [sc EXCEPT !.position = advance(inp, sc.position)]
    IN  IF peek(inp, sc.position) = "<" THEN handleLessThan(inp, opts, next)
        ELSE handleText(inp, opts, next)

createEOFToken(inp, sc) == MkToken(inp, "EOF", sc.position, sc.position)

\* tokenize as a function: the scanner record when the loop has ended and the
\* EOF token has been added.
RECURSIVE TokenizeLoop(_, _, _)
TokenizeLoop(inp, opts, sc) ==
    IF isAtEnd(inp, sc.position)
    THEN [sc EXCEPT !.tokens = Append(@, createEOFToken(inp, sc))]
    ELSE TokenizeLoop(inp, opts, scanToken(inp, opts, sc))

NewScanner == [position |-> 0, tokens |-> <<>>, errors |-> <<>>]
tokenize(inp, opts) == TokenizeLoop(inp, opts, NewScanner)

DefaultTokenizerOptions ==
    [preserveWhitespace |-> TRUE, includeComments |-> TRUE,
     includeConditionalComments |-> TRUE, strictMode |-> FALSE, errorRecovery |-> TRUE]

\* The options a tokenizer is constructed with: the defaults, strict mode,
\* comments left out, and every option switched the other way.
TokenizerOptions ==
    {DefaultTokenizerOptions,
     [DefaultTokenizerOptions EXCEPT !.strictMode = TRUE],
     [DefaultTokenizerOptions EXCEPT !.includeComments = FALSE],
     [preserveWhitespace |-> FALSE, includeComments |-> FALSE,
      includeConditionalComments |-> FALSE, strictMode |-> TRUE, errorRecovery |-> FALSE]}

\* The input texts: up to MaxFrags pieces of markup, one after the other.
Fragments ==
    {<<"<">>, <<"<", "a">>, <<"<", "/", "a">>, <<">">>, <<"/">>, <<"\n">>, <<"a">>,
     <<"=", "\"">>, <<"<", "!", "-", "-">>, <<"-", "-", ">">>,
     <<"<", "!", "[">>, <<"]", ">">>,
     <<"<", "!", "[", "C", "D", "A", "T", "A", "[">>, <<"]", "]", ">">>,
     <<"<", "!", "D", "O", "C", "T", "Y", "P", "E">>, <<"<", "!">>,
     <<" ", "a", "b", "c">>}

RECURSIVE Concat(_)
Concat(ss) == IF ss = <<>> THEN <<>> ELSE Head(ss) \o Concat(Tail(ss))

Inputs == {Concat(fs) : fs \in SeqsUpTo(Fragments, MaxFrags)}

IdleTok ==
    /\ input = <<>>
    /\ tokOptions = DefaultTokenizerOptions
    /\ scanner = NewScanner
    /\ tpc = "idle"

\* The constructor and initialize (35-44, 75-82).
InitTokRun ==
    /\ input \in Inputs
    /\ tokOptions \in TokenizerOptions
    /\ scanner = NewScanner
    /\ tpc = "scanning"

\* One iteration of tokenize's loop (55-57).
ScanToken ==
    /\ tpc = "scanning"
    /\ ~isAtEnd(input, scanner.position)
    /\ scanner' = scanToken(input, tokOptions, scanner)
    /\ UNCHANGED <<input, tokOptions, tpc>>
    /\ UNCHANGED notTok

\* The loop has ended: the EOF token is added and tokenize returns (60-72).
TokenizeEnd ==
    /\ tpc = "scanning"
    /\ isAtEnd(input, scanner.position)
    /\ scanner' = [scanner EXCEPT !.tokens = Append(@, createEOFToken(input, scanner))]
    /\ tpc' = "done"
    /\ UNCHANGED <<input, tokOptions>>
    /\ UNCHANGED notTok

NextTok == ScanToken \/ TokenizeEnd

(***************************************************************************)
(* HTMLParser (part_004 378-864).  The tree under construction is the      *)
(* sequence nodes; a node object is its index, the document is node 1, and *)
(* children, parent, the stack and currentNode hold indices.  The random   *)
(* id of a node and its equivalenceClass string are written once and read  *)
(* by nothing, and are left out.  The parser record ps is                  *)
(* [nodes, stack, currentNode, errors, caught, next]: caught is what       *)
(* handleParserError printed, next the index of the token to process.      *)
(***************************************************************************)
LowerStr(s) == [i \in 1..Len(s) |-> toLowerCase(s[i])]

NewNode(type) ==
    [type |-> type, tagName |-> Undefined, attributes |-> {}, selfClosing |-> FALSE,
     content |-> Undefined, isWhitespace |-> FALSE, data |-> Undefined,
     doctype |-> Undefined, documentElement |-> 0, children |-> <<>>, parent |-> 0]

\* appendChild of a new node: the node is stored and linked both ways.
appendChild(ps, parent, child) ==
    [ps EXCEPT !.nodes = Append([@ EXCEPT ![parent].children = Append(@, Len(ps.nodes) + 1)],
                                [child EXCEPT !.parent = parent])]

Returned(ps) == [ps |-> ps, thrown |-> ""]
Thrown(ps, message) == [ps |-> ps, thrown |-> message]

parseStartTag(opts, token, ps) ==
    LET element == [NewNode("Element") EXCEPT
                       !.tagName = IF opts.preserveCase THEN token.name
                                   ELSE LowerStr(token.name),
                       !.attributes = token.attributes,
                       !.selfClosing = token.selfClosing]
        attached == appendChild(ps, ps.currentNode, element)
    IN  IF token.selfClosing THEN Returned(attached)
        ELSE Returned([attached EXCEPT !.stack = Append(@, Len(attached.nodes)),
                                       !.currentNode = Len(attached.nodes)])

\* A handler that closes only the element on top of the stack.
parseEndTagTopOnly(opts, token, ps) ==
    LET matches == {i \in 1..Len(ps.stack) :
                       /\ ps.nodes[ps.stack[i]].type = "Element"
                       /\ LowerStr(ps.nodes[ps.stack[i]].tagName) = LowerStr(token.name)}
        popped == SubSeq(ps.stack, 1, Len(ps.stack) - 1)
    IN  IF matches = {} THEN Returned(ps)
        ELSE Returned([ps EXCEPT !.stack = popped, !.currentNode = popped[Len(popped)]])

\* A handler that closes the innermost open element when no open element
\* has the name of the end tag.
parseEndTagCloseInnermost(opts, token, ps) ==
    LET matches == {i \in 1..Len(ps.stack) :
                       /\ ps.nodes[ps.stack[i]].type = "Element"
                       /\ LowerStr(ps.nodes[ps.stack[i]].tagName) = LowerStr(token.name)}
        matchIndex == IF matches = {} THEN Len(ps.stack)
                      ELSE CHOOSE i \in matches : \A j \in matches : j <= i
        popped == SubSeq(ps.stack, 1, matchIndex - 1)
    IN  IF matchIndex = 1 THEN Returned(ps)
        ELSE Returned([ps EXCEPT !.stack = popped, !.currentNode = popped[Len(popped)]])

parseEndTag(opts, token, ps) ==
    LET matches == {i \in 1..Len(ps.stack) :
                       /\ ps.nodes[ps.stack[i]].type = "Element"
                       /\ LowerStr(ps.nodes[ps.stack[i]].tagName) = LowerStr(token.name)}
        matchIndex == CHOOSE i \in matches : \A j \in matches : j <= i
        popped == SubSeq(ps.stack, 1, matchIndex - 1)
    IN  IF matches = {}
        THEN IF opts.strictNesting THEN Thrown(ps, "Unmatched end tag") ELSE Returned(ps)
        ELSE Returned([ps EXCEPT
                 !.stack = popped,
                 !.currentNode = IF Len(popped) > 0 THEN popped[Len(popped)]
                                 ELSE IF ps.nodes[ps.stack[matchIndex]].parent # 0
                                 THEN ps.nodes[ps.stack[matchIndex]].parent
                                 ELSE ps.stack[matchIndex]])

processTokenWithOptimizedState(opts, token, ps) ==
    CASE token.type = "StartTag" -> parseStartTag(opts, token, ps)
      [] token.type = "EndTag" -> parseEndTag(opts, token, ps)
      [] token.type = "Text" ->
            \* handleTextToken (550-559)
            IF ~token.isWhitespace \/ opts.preserveCase
            THEN Returned(appendChild(ps, ps.currentNode,
                     [NewNode("Text") EXCEPT !.content = token.content,
                                             !.isWhitespace = token.isWhitespace]))
            ELSE Returned(ps)
      [] token.type = "Comment" ->
            Returned(appendChild(ps, ps.currentNode,
                     [NewNode("Comment") EXCEPT !.data = token.data]))
      [] token.type = "Doctype" ->
            IF ps.nodes[ps.currentNode].type = "Document"
            THEN Returned([ps EXCEPT !.nodes[ps.currentNode].doctype =
                              [name |-> token.name, publicId |-> token.publicId,
                               systemId |-> token.systemId]])
            ELSE Returned(ps)
      [] token.type = "CDATA" ->
            Returned(appendChild(ps, ps.currentNode,
                     [NewNode("CDATA") EXCEPT !.content = token.content]))
      [] token.type = "EOF" ->
            \* handleEOFToken (594-607)
            IF Len(ps.stack) > 1 /\ opts.strictNesting THEN Thrown(ps, "Unclosed tags")
            ELSE Returned(ps)
      [] OTHER -> Thrown(ps, "Unsupported token type")

\* The body of parse's loop (433-441): [ps, stop].
loopBody(opts, token, ps) ==
    LET r == processTokenWithOptimizedState(opts, token, ps)
    IN  IF r.thrown = "" THEN [ps |-> [r.ps EXCEPT !.next = @ + 1], stop |-> FALSE]
        ELSE [ps |-> [ps EXCEPT !.caught = Append(@, r.thrown), !.next = @ + 1],
              stop |-> ~opts.errorRecovery]

\* validateDocumentStructure (827-840).
validateDocumentStructure(ps) ==
    LET kids == ps.nodes[1].children
        elements == {i \in 1..Len(kids) : ps.nodes[kids[i]].type = "Element"}
        first == CHOOSE i \in elements : \A j \in elements : i <= j
        last == CHOOSE i \in elements : \A j \in elements : j <= i
        RECURSIVE Report(_)
        Report(i) == IF i > Len(kids) THEN <<>>
                     ELSE (IF i \in elements /\ i # first
                           THEN <<"Multiple root elements found">> ELSE <<>>) \o Report(i + 1)
    IN  IF elements = {} THEN ps
        ELSE [ps EXCEPT !.errors = @ \o Report(1),
                        !.nodes[1].documentElement = kids[last]]

NewParser ==
    [nodes |-> <<NewNode("Document")>>, stack |-> <<1>>, currentNode |-> 1,
     errors |-> <<>>, caught |-> <<>>, next |-> 1]

\* parse as a function: the parser record that parse returns from.
RECURSIVE ParseLoop(_, _, _)
ParseLoop(opts, tokens, ps) ==
    IF ps.next > Len(tokens) THEN validateDocumentStructure(ps)
    ELSE LET r == loopBody(opts, tokens[ps.next], ps)
         IN  IF r.stop THEN validateDocumentStructure(r.ps)
             ELSE ParseLoop(opts, tokens, r.ps)

parse(tokens, opts) == ParseLoop(opts, tokens, NewParser)

DefaultParserOptions ==
    [allowSelfClosingTags |-> TRUE, strictNesting |-> FALSE, preserveCase |-> FALSE,
     errorRecovery |-> TRUE, stateMinimization |-> TRUE]

\* The options a parser is constructed with: tolerant, strict nesting with and
\* without error recovery, and case preservation.
ParserOptions ==
    {DefaultParserOptions,
     [DefaultParserOptions EXCEPT !.strictNesting = TRUE],
     [DefaultParserOptions EXCEPT !.strictNesting = TRUE, !.errorRecovery = FALSE],
     [DefaultParserOptions EXCEPT !.preserveCase = TRUE]}

\* The tokens handed to parse: a stream of up to MaxTokens tag, text, doctype
\* and conditional-comment tokens and the EOF token that tokenize ends every
\* stream with.
PToken(type, name) == [MkToken(<<>>, type, 0, 0) EXCEPT !.name = name]
ParserTokens ==
    {PToken("StartTag", <<"d", "i", "v">>), PToken("StartTag", <<"s", "p", "a", "n">>),
     PToken("EndTag", <<"D", "I", "V">>), PToken("EndTag", <<"s", "p", "a", "n">>),
     [PToken("Text", Undefined) EXCEPT !.content = <<"a">>],
     [PToken("Text", Undefined) EXCEPT !.content = <<"\n">>, !.isWhitespace = TRUE],
     PToken("Doctype", <<"h", "t", "m", "l">>),
     [PToken("ConditionalComment", Undefined) EXCEPT !.condition = <<"i", "f">>,
                                                     !.content = <<>>]}

TokenStreams ==
    {ts \o <<PToken("EOF", Undefined)>> : ts \in SeqsUpTo(ParserTokens, MaxTokens)}

IdleParse ==
    /\ ptokens = <<>>
    /\ parserOptions = DefaultParserOptions
    /\ parser = NewParser
    /\ ppc = "idle"

\* The constructor and the start of parse (386-424).
InitParseRun ==
    /\ ptokens \in TokenStreams
    /\ parserOptions \in ParserOptions
    /\ parser = NewParser
    /\ ppc = "parsing"

\* One iteration of parse's loop whose handler returns (433-434).
ProcessToken ==
    /\ ppc = "parsing"
    /\ parser.next <= Len(ptokens)
    /\ processTokenWithOptimizedState(parserOptions, ptokens[parser.next], parser).thrown = ""
    /\ parser' = loopBody(parserOptions, ptokens[parser.next], parser).ps
    /\ UNCHANGED <<ptokens, parserOptions, ppc>>
    /\ UNCHANGED notParse

\* One iteration whose handler throws: the catch block (435-441).
ProcessTokenCatch ==
    /\ ppc = "parsing"
    /\ parser.next <= Len(ptokens)
    /\ processTokenWithOptimizedState(parserOptions, ptokens[parser.next], parser).thrown # ""
    /\ parser' = loopBody(parserOptions, ptokens[parser.next], parser).ps
    /\ ppc' = IF loopBody(parserOptions, ptokens[parser.next], parser).stop
              THEN "stopped" ELSE "parsing"
    /\ UNCHANGED <<ptokens, parserOptions>>
    /\ UNCHANGED notParse

\* The loop has ended: the structure is validated and parse returns (445-457).
ParseEnd ==
    /\ ppc = "stopped" \/ (ppc = "parsing" /\ parser.next > Len(ptokens))
    /\ parser' = validateDocumentStructure(parser)
    /\ ppc' = "done"
    /\ UNCHANGED <<ptokens, parserOptions>>
    /\ UNCHANGED notParse

NextParse == ProcessToken \/ ProcessTokenCatch \/ ParseEnd

(***************************************************************************)
(* HTMLASTBuilder (part_005 30-517).  A tree is a value: a node is         *)
(* [type, tagName, attributes, selfClosing, content, isWhitespace, data,   *)
(* doctype, children] with its children in it, and a node object of a tree *)
(* is the path to it.  A node's id, equivalenceClass and metadata are      *)
(* copied by cloneNode and read by nothing, and are left out, as is the    *)
(* documentElement that cloneNode resets.                                  *)
(***************************************************************************)
HNode(type, children) ==
    [type |-> type, tagName |-> Undefined, attributes |-> {}, selfClosing |-> FALSE,
     content |-> Undefined, isWhitespace |-> FALSE, data |-> Undefined,
     doctype |-> Undefined, children |-> children]

\* The tree below node id of a parser's nodes.
RECURSIVE TreeOf(_, _)
TreeOf(nodes, id) ==
    LET n == nodes[id]
    IN  [HNode(n.type, [i \in 1..Len(n.children) |-> TreeOf(nodes, n.children[i])]) EXCEPT
            !.tagName = n.tagName, !.attributes = n.attributes,
            !.selfClosing = n.selfClosing, !.content = n.content,
            !.isWhitespace = n.isWhitespace, !.data = n.data, !.doctype = n.doctype]

RECURSIVE HNodeAt(_, _)
HNodeAt(tree, path) ==
    IF path = <<>> THEN tree ELSE HNodeAt(tree.children[Head(path)], Tail(path))

\* The node objects of a tree in the order traverseForClassification visits them.
RECURSIVE PreOrder(_, _)
PreOrder(tree, path) ==
    <<path>> \o Concat([i \in 1..Len(tree.children) |->
                           PreOrder(tree.children[i], Append(path, i))])

\* content.replace(re, repl) for a pattern re that matches the runs of In.
ReplaceRuns(s, In(_), repl) ==
    Concat([i \in 1..Len(s) |->
               IF In(s[i]) THEN (IF i > 1 /\ In(s[i - 1]) THEN <<>> ELSE repl)
               ELSE <<s[i]>>])

generateContentPattern(content) ==
    LET nums == ReplaceRuns(content, isDigit, <<"N", "U", "M">>)
        words == ReplaceRuns(nums, isAlpha, <<"W", "O", "R", "D">>)
        spaces == ReplaceRuns(words, isWhitespace, <<"S", "P", "A", "C", "E">>)
    IN  SubSeq(spaces, 1, Min(50, Len(spaces)))

\* The signature string, kept as the tuple of its components; the sorted
\* list of child types is the number of children of each type.
computeNodeSignature(node) ==
    <<node.type,
      IF node.type = "Element"
      THEN <<node.tagName, node.attributes, node.selfClosing>>
      ELSE IF node.type = "Text"
      THEN <<node.isWhitespace,
             IF node.isWhitespace THEN <<>> ELSE generateContentPattern(node.content)>>
      ELSE IF node.type = "Comment" THEN <<Len(node.data)>>
      ELSE <<>>,
      [t \in {node.children[i].type : i \in 1..Len(node.children)} |->
          Cardinality({i \in 1..Len(node.children) : node.children[i].type = t})]>>

estimateNodeMemory(node) ==
    LET RECURSIVE AttrSize(_)
        AttrSize(as) == IF as = {} THEN 0
                        ELSE LET a == CHOOSE x \in as : TRUE
                             IN  (Len(a[1]) + Len(a[2])) * 2 + AttrSize(as \ {a})
    IN  100 + (CASE node.type = "Element" -> Len(node.tagName) * 2 + AttrSize(node.attributes)
                 [] node.type = "Text" -> Len(node.content) * 2
                 [] node.type = "Comment" -> Len(node.data) * 2
                 [] OTHER -> 0)

\* buildStateClasses (97-115): the representative of the class of a
\* signature, NoPath when fewer than two nodes of the tree have it.
NoPath == <<0>>
selectRepresentative(ast, signature) ==
    LET order == PreOrder(ast, <<>>)
        members == {k \in 1..Len(order) :
                       computeNodeSignature(HNodeAt(ast, order[k])) = signature}
        memory(k) == estimateNodeMemory(HNodeAt(ast, order[k]))
    IN  IF Cardinality(members) <= 1 THEN NoPath
        ELSE order[CHOOSE k \in members :
                      \A j \in members : memory(k) < memory(j) \/ (memory(k) = memory(j) /\ k <= j)]

\* cloneNode (309-348): the type-specific fields it copies.
cloneHTMLNode(node) ==
    CASE node.type = "Element" ->
            [HNode("Element", <<>>) EXCEPT !.tagName = node.tagName,
                !.attributes = node.attributes, !.selfClosing = node.selfClosing]
      [] node.type = "Text" ->
            [HNode("Text", <<>>) EXCEPT !.content = node.content,
                                        !.isWhitespace = node.isWhitespace]
      [] node.type = "Comment" -> [HNode("Comment", <<>>) EXCEPT !.data = node.data]
      [] node.type = "Document" -> [HNode("Document", <<>>) EXCEPT !.doctype = node.doctype]
      [] OTHER -> HNode(node.type, <<>>)

\* mergeAdjacentTextNodes (248-291), from child i on; current is the pending
\* text node (<<>> when there is none) with the content collected for it.
RECURSIVE MergeLoop(_, _, _, _)
MergeLoop(children, i, merged, current) ==
    LET finalized == IF current = <<>> THEN merged ELSE Append(merged, current[1])
    IN  IF i > Len(children) THEN finalized
        ELSE IF children[i].type = "Text"
        THEN IF current # <<>> /\ current[1].isWhitespace = children[i].isWhitespace
             THEN MergeLoop(children, i + 1, merged,
                      <<[current[1] EXCEPT !.content = @ \o children[i].content]>>)
             ELSE MergeLoop(children, i + 1, finalized, <<cloneHTMLNode(children[i])>>)
        ELSE MergeLoop(children, i + 1, Append(finalized, children[i]), <<>>)

mergeAdjacentTextNodes(children) == MergeLoop(children, 1, <<>>, <<>>)

\* optimizeNode (203-235) of the node at path, with optimizeChildren.
RECURSIVE optimizeNode(_, _)
optimizeNode(ast, path) ==
    LET node == HNodeAt(ast, path)
        representative == selectRepresentative(ast, computeNodeSignature(node))
        optimizedNode == IF representative # NoPath /\ representative # path
                         THEN cloneHTMLNode(HNodeAt(ast, representative))
                         ELSE cloneHTMLNode(node)
    IN  [optimizedNode EXCEPT !.children =
            mergeAdjacentTextNodes([i \in 1..Len(node.children) |->
                                       optimizeNode(ast, Append(path, i))])]

isDefaultAttributeValue(tagName, attribute, value) ==
    /\ attribute = <<"t", "y", "p", "e">>
    /\ \/ tagName = <<"i", "n", "p", "u", "t">> /\ value = <<"t", "e", "x", "t">>
       \/ tagName = <<"b", "u", "t", "t", "o", "n">>
            /\ value = <<"b", "u", "t", "t", "o", "n">>
       \/ tagName = <<"s", "c", "r", "i", "p", "t">>
            /\ value = <<"t", "e", "x", "t", "/", "j", "a", "v", "a", "s", "c", "r", "i", "p", "t">>

getEssentialAttributes(element) ==
    {a \in element.attributes : ~isDefaultAttributeValue(element.tagName, a[1], a[2])}

\* applyMemoryOptimizations (353-390): optimizeAttributes on every element.
RECURSIVE applyMemoryOptimizations(_)
applyMemoryOptimizations(node) ==
    [node EXCEPT
        !.attributes = IF node.type = "Element" THEN getEssentialAttributes(node) ELSE @,
        !.children = [i \in 1..Len(node.children) |->
                         applyMemoryOptimizations(node.children[i])]]

\* buildOptimizedAST (49-69) of the tree ast whose root is the object root;
\* cache is minimizedNodes, whose entry for the root of a tree is the tree
\* that was returned for it (the entries of the nodes below the root are
\* reached only through it).
buildOptimizedAST(cache, root, ast, optimize) ==
    IF ~optimize THEN ast
    ELSE IF root \in DOMAIN cache THEN cache[root]
    ELSE applyMemoryOptimizations(optimizeNode(ast, <<>>))

\* minimizedNodes.set(node, optimizedNode) for the root of a tree.
CachePut(cache, root, optimized) ==
    [o \in DOMAIN cache \cup {root} |-> IF o = root THEN optimized ELSE cache[o]]

RECURSIVE validateBehavioralEquivalence(_, _)
validateBehavioralEquivalence(original, optimized) ==
    /\ original.type = optimized.type
    /\ Len(original.children) = Len(optimized.children)
    /\ original.type = "Element" =>
          /\ original.tagName = optimized.tagName
          /\ Cardinality(getEssentialAttributes(original))
                = Cardinality(getEssentialAttributes(optimized))
          /\ getEssentialAttributes(original) \subseteq getEssentialAttributes(optimized)
    /\ original.type = "Text" =>
          /\ original.content = optimized.content
          /\ original.isWhitespace = optimized.isWhitespace
    /\ \A i \in 1..Len(original.children) :
          validateBehavioralEquivalence(original.children[i], optimized.children[i])

(***************************************************************************)
(* The builder on objects.  buildOptimizedAST assigns to fields of nodes   *)
(* (children, parent, content, tagName, attributes), so that what a call   *)
(* leaves alone is a matter of which objects it writes.  Here a node is an *)
(* object of a heap: object i is heap[i], with the fields of HNode, its    *)
(* children as object identities and its parent (0 = undefined).           *)
(* minimizedNodes maps the identity of a node to that of its optimization. *)
(***************************************************************************)
HObject(node, children, parent) ==
    [type |-> node.type, tagName |-> node.tagName, attributes |-> node.attributes,
     selfClosing |-> node.selfClosing, content |-> node.content,
     isWhitespace |-> node.isWhitespace, data |-> node.data, doctype |-> node.doctype,
     children |-> children, parent |-> parent]

\* The objects of a tree as the parser leaves them, the root first: [heap, id].
RECURSIVE AllocHNode(_, _, _)
RECURSIVE AllocHChildren(_, _, _, _)
AllocHChildren(h, children, parent, i) ==
    IF i > Len(children) THEN [heap |-> h, ids |-> <<>>]
    ELSE LET first == AllocHNode(h, children[i], parent)
             rest == AllocHChildren(first.heap, children, parent, i + 1)
         IN  [heap |-> rest.heap, ids |-> <<first.id>> \o rest.ids]

AllocHNode(h, node, parent) ==
    LET id == Len(h) + 1
        r == AllocHChildren(Append(h, HObject(node, <<>>, parent)), node.children, id, 1)
    IN  [heap |-> [r.heap EXCEPT ![id].children = r.ids], id |-> id]

\* The tree below object id as a value.
RECURSIVE HTreeAt(_, _)
HTreeAt(h, id) ==
    [type |-> h[id].type, tagName |-> h[id].tagName, attributes |-> h[id].attributes,
     selfClosing |-> h[id].selfClosing, content |-> h[id].content,
     isWhitespace |-> h[id].isWhitespace, data |-> h[id].data, doctype |-> h[id].doctype,
     children |-> [i \in 1..Len(h[id].children) |-> HTreeAt(h, h[id].children[i])]]

\* The objects below id in the order traverseForClassification visits them.
RECURSIVE HObjectsAt(_, _)
HObjectsAt(h, id) ==
    <<id>> \o Concat([i \in 1..Len(h[id].children) |-> HObjectsAt(h, h[id].children[i])])

\* buildStateClasses (97-115) on the tree below root: the representative of
\* the equivalence class of each of its nodes, 0 for a node that has none.
representatives(h, root) ==
    LET ast == HTreeAt(h, root)
        order == PreOrder(ast, <<>>)
        objects == HObjectsAt(h, root)
        at(path) == objects[CHOOSE k \in 1..Len(order) : order[k] = path]
    IN  [id \in {objects[k] : k \in 1..Len(objects)} |->
            LET representative ==
                    selectRepresentative(ast, computeNodeSignature(HTreeAt(h, id)))
            IN  IF representative = NoPath THEN 0 ELSE at(representative)]

\* A cloneNode that hands back the node it was given.
cloneNodeInPlace(h, node) == [heap |-> h, id |-> node]

\* cloneNode (309-348): a new object with the fields of node, without
\* children and parent: [heap, id].
cloneNodeObject(h, node) ==
    [heap |-> Append(h, [h[node] EXCEPT !.children = <<>>, !.parent = 0]),
     id |-> Len(h) + 1]

\* mergeAdjacentTextNodes (248-291) from child i on; current is
\* currentTextNode (0 = null) and content is currentTextContent: [heap, ids].
RECURSIVE MergeObjects(_, _, _, _, _, _)
MergeObjects(h, children, i, merged, current, content) ==
    LET finalHeap == IF current = 0 THEN h ELSE [h EXCEPT ![current].content = content]
        finalized == IF current = 0 THEN merged ELSE Append(merged, current)
    IN  IF i > Len(children) THEN [heap |-> finalHeap, ids |-> finalized]
        ELSE IF h[children[i]].type = "Text"
        THEN IF current # 0 /\ h[current].isWhitespace = h[children[i]].isWhitespace
             THEN MergeObjects(h, children, i + 1, merged, current,
                               content \o h[children[i]].content)
             ELSE LET cloned == cloneNodeObject(finalHeap, children[i])
                  IN  MergeObjects(cloned.heap, children, i + 1, finalized, cloned.id,
                                   finalHeap[children[i]].content)
        ELSE MergeObjects(finalHeap, children, i + 1, Append(finalized, children[i]), 0, <<>>)

\* optimizeNode (203-235) and the map of optimizeChildren (237-242) from
\* child i on, on [heap, cache]; classes is what buildStateClasses found.
RECURSIVE optimizeNodeObject(_, _, _)
RECURSIVE OptimizeObjects(_, _, _, _)
OptimizeObjects(st, classes, children, i) ==
    IF i > Len(children) THEN [heap |-> st.heap, cache |-> st.cache, ids |-> <<>>]
    ELSE LET first == optimizeNodeObject(st, classes, children[i])
             rest == OptimizeObjects(first, classes, children, i + 1)
         IN  [heap |-> rest.heap, cache |-> rest.cache, ids |-> <<first.id>> \o rest.ids]

optimizeNodeObject(st, classes, node) ==
    IF node \in DOMAIN st.cache
    THEN [heap |-> st.heap, cache |-> st.cache, id |-> st.cache[node]]
    ELSE LET representative == IF node \in DOMAIN classes THEN classes[node] ELSE 0
             cloned == IF representative # 0 /\ representative # node
                       THEN cloneNodeObject(st.heap, representative)
                       ELSE cloneNodeObject(st.heap, node)
             optimizedNode == cloned.id
             optimized == OptimizeObjects([heap |-> cloned.heap, cache |-> st.cache],
                                          classes, st.heap[node].children, 1)
             merged == MergeObjects(optimized.heap, optimized.ids, 1, <<>>, 0, <<>>)
             withChildren == [merged.heap EXCEPT ![optimizedNode].children = merged.ids]
             children == {merged.ids[k] : k \in 1..Len(merged.ids)}
         IN  [heap |-> [o \in DOMAIN withChildren |->
                          IF o \in children
                          THEN [withChildren[o] EXCEPT !.parent = optimizedNode]
                          ELSE withChildren[o]],
              cache |-> [o \in DOMAIN optimized.cache \cup {node} |->
                           IF o = node THEN optimizedNode ELSE optimized.cache[o]],
              id |-> optimizedNode]

\* applyMemoryOptimizations (353-390) on the objects below node; the tagName
\* that internCommonStrings assigns is the one the element has.
applyMemoryOptimizationsObjects(h, node) ==
    LET below == HObjectsAt(h, node)
        written == {below[k] : k \in 1..Len(below)}
    IN  [o \in DOMAIN h |->
            IF o \in written /\ h[o].type = "Element"
            THEN [h[o] EXCEPT !.attributes = getEssentialAttributes(h[o])]
            ELSE h[o]]

\* buildOptimizedAST (49-69) of the tree below ast: [heap, cache, id].
buildOptimizedObjects(st, ast, optimize) ==
    IF ~optimize THEN [heap |-> st.heap, cache |-> st.cache, id |-> ast]
    ELSE LET optimizedAST == optimizeNodeObject(st, representatives(st.heap, ast), ast)
         IN  [heap |-> applyMemoryOptimizationsObjects(optimizedAST.heap, optimizedAST.id),
              cache |-> optimizedAST.cache,
              id |-> optimizedAST.id]

\* The trees handed to the builder: a document with up to MaxOptKids children.
HText(content) ==
    [HNode("Text", <<>>) EXCEPT !.content = content,
        !.isWhitespace = \A i \in 1..Len(content) : isWhitespace(content[i])]
HElement(tagName, attributes, children) ==
    [HNode("Element", children) EXCEPT !.tagName = tagName, !.attributes = attributes]
OptChildren ==
    {HText(<<"a">>), HText(<<"b">>), HText(<<"a", "b">>), HText(<<"\n">>),
     HElement(<<"p">>, {}, <<HText(<<"a">>)>>), HElement(<<"p">>, {}, <<HText(<<"b">>)>>),
     HElement(<<"i", "n", "p", "u", "t">>, {<<<<"t", "y", "p", "e">>, <<"t", "e", "x", "t">>>>}, <<>>),
     [HNode("Comment", <<>>) EXCEPT !.data = <<"c">>]}
OptTrees == {HNode("Document", ch) : ch \in SeqsUpTo(OptChildren, MaxOptKids)}

NoTree == HNode("None", <<>>)

NoCache == [o \in {} |-> NoTree]

\* No object yet; the root of the tree handed to the builder is object 1.
NoObjects == [heap |-> <<>>, cache |-> [o \in {} |-> 0], once |-> 0, twice |-> 0]

IdleOpt ==
    /\ optTree = NoTree
    /\ optimizeFlag = TRUE
    /\ optOnce = NoTree
    /\ optTwice = NoTree
    /\ minimizedNodes = NoCache
    /\ optObjects = NoObjects
    /\ opc = "idle"

\* A new HTMLASTBuilder (37-43) and a tree to optimize.
InitOptRun ==
    /\ optTree \in OptTrees
    /\ optimizeFlag \in BOOLEAN
    /\ optOnce = NoTree
    /\ optTwice = NoTree
    /\ minimizedNodes = NoCache
    /\ optObjects = [NoObjects EXCEPT !.heap = AllocHNode(<<>>, optTree, 0).heap]
    /\ opc = "start"

\* buildOptimizedAST on the tree.
BuildFirst ==
    /\ opc = "start"
    /\ optOnce' = buildOptimizedAST(minimizedNodes, "tree", optTree, optimizeFlag)
    /\ minimizedNodes' = IF optimizeFlag THEN CachePut(minimizedNodes, "tree", optOnce')
                          ELSE minimizedNodes
    /\ LET r == buildOptimizedObjects(optObjects, 1, optimizeFlag)
       IN  optObjects' = [heap |-> r.heap, cache |-> r.cache, once |-> r.id, twice |-> 0]
    /\ opc' = "once"
    /\ UNCHANGED <<optTree, optimizeFlag, optTwice>>
    /\ UNCHANGED notOpt

\* buildOptimizedAST on the tree that the first call returned: the same
\* object when the first call did not optimize, a new tree when it did.
BuildSecond ==
    /\ opc = "once"
    /\ optTwice' = buildOptimizedAST(minimizedNodes, "once", optOnce, optimizeFlag)
    /\ minimizedNodes' = IF optimizeFlag THEN CachePut(minimizedNodes, "once", optTwice')
                          ELSE minimizedNodes
    /\ LET r == buildOptimizedObjects(optObjects, optObjects.once, optimizeFlag)
       IN  optObjects' = [heap |-> r.heap, cache |-> r.cache, once |-> optObjects.once,
                          twice |-> r.id]
    /\ opc' = "twice"
    /\ UNCHANGED <<optTree, optimizeFlag, optOnce>>
    /\ UNCHANGED notOpt

NextOpt == BuildFirst \/ BuildSecond

(***************************************************************************)
(* HTMLCompiler.compile (part_004 50-116), one action per stage.  The      *)
(* record compilation holds what the stages have produced so far; the      *)
(* timing and size metadata of the result are left out.                    *)
(***************************************************************************)
DefaultCompilationOptions ==
    [preserveWhitespace |-> TRUE, includeComments |-> TRUE,
     includeConditionalComments |-> TRUE, strictMode |-> FALSE, errorRecovery |-> TRUE,
     allowSelfClosingTags |-> TRUE, strictNesting |-> FALSE, preserveCase |-> FALSE,
     stateMinimization |-> TRUE, optimizeAST |-> TRUE, validateBehavior |-> TRUE,
     generateSourceMap |-> FALSE]

CompilationOptions ==
    {DefaultCompilationOptions,
     [DefaultCompilationOptions EXCEPT !.validateBehavior = FALSE],
     [DefaultCompilationOptions EXCEPT !.optimizeAST = FALSE],
     [DefaultCompilationOptions EXCEPT !.strictNesting = TRUE, !.errorRecovery = FALSE],
     [DefaultCompilationOptions EXCEPT !.preserveCase = TRUE, !.includeComments = FALSE]}

\* The texts handed to compile: up to MaxPieces pieces of markup.
Pieces ==
    {<<"<", "p", ">">>, <<"<", "/", "p", ">">>, <<"a">>, <<"b">>, <<"\n">>,
     <<"<", "!", "-", "-", "c", "-", "-", ">">>, <<"<", "b", "r", "/", ">">>,
     <<"<", "i", "n", "p", "u", "t", " ", "t", "y", "p", "e", "=", "t", "e", "x", "t", ">">>}
CompileInputs == {Concat(ps) : ps \in SeqsUpTo(Pieces, MaxPieces)}

RECURSIVE countNodes(_)
countNodes(node) ==
    LET RECURSIVE Sum(_)
        Sum(i) == IF i > Len(node.children) THEN 0
                  ELSE countNodes(node.children[i]) + Sum(i + 1)
    IN  1 + Sum(1)

\* generateMinimizationReport (74-85); the classes are those of the last
\* buildStateClasses of the builder, none before the first.
generateMinimizationReport(original, optimized, optimize) ==
    [originalStateCount |-> countNodes(original),
     minimizedStateCount |-> countNodes(optimized),
     equivalenceClasses |->
        IF optimize
        THEN {s \in {computeNodeSignature(HNodeAt(original, p)) :
                        p \in {PreOrder(original, <<>>)[k] :
                                  k \in 1..Len(PreOrder(original, <<>>))}} :
                 selectRepresentative(original, s) # NoPath}
        ELSE {},
     behavioralEquivalence |-> validateBehavioralEquivalence(original, optimized)]

\* The report of a compilation that has not validated (100-106).
NoReport ==
    [originalStateCount |-> 0, minimizedStateCount |-> 0, equivalenceClasses |-> {},
     behavioralEquivalence |-> TRUE]

NoCompilation ==
    [tokens |-> <<>>, tokenErrors |-> <<>>, parserResult |-> NewParser,
     optimizedAST |-> NoTree, minimization |-> NoReport, returned |-> FALSE]

IdleCompile ==
    /\ compileInput = <<>>
    /\ compileOptions = DefaultCompilationOptions
    /\ compilation = NoCompilation
    /\ cpc = "idle"

\* A new HTMLCompiler (38-42) and a call of compile (50-72).
InitCompileRun ==
    /\ compileInput \in CompileInputs
    /\ compileOptions \in CompilationOptions
    /\ compilation = NoCompilation
    /\ cpc = "tokenize"

\* Stage 1 (75).
CompileTokenize ==
    /\ cpc = "tokenize"
    /\ LET tokenizationResult == tokenize(compileInput, compileOptions)
       IN  compilation' = [compilation EXCEPT !.tokens = tokenizationResult.tokens,
                                              !.tokenErrors = tokenizationResult.errors]
    /\ cpc' = "parse"
    /\ UNCHANGED <<compileInput, compileOptions>>
    /\ UNCHANGED notCompile

\* Stage 2 (78).
CompileParse ==
    /\ cpc = "parse"
    /\ compilation' = [compilation EXCEPT
                          !.parserResult = parse(compilation.tokens, compileOptions)]
    /\ cpc' = "build"
    /\ UNCHANGED <<compileInput, compileOptions>>
    /\ UNCHANGED notCompile

\* Stage 3 (81): the builder is new and the tree is not in its cache.
CompileBuildAST ==
    /\ cpc = "build"
    /\ compilation' = [compilation EXCEPT
                          !.optimizedAST =
                              buildOptimizedAST(NoCache, "ast",
                                  TreeOf(compilation.parserResult.nodes, 1),
                                  compileOptions.optimizeAST)]
    /\ cpc' = "validate"
    /\ UNCHANGED <<compileInput, compileOptions>>
    /\ UNCHANGED notCompile

\* Stage 4 (84-91): the report, and the throw when it denies equivalence.
CompileValidate ==
    /\ cpc = "validate"
    /\ LET report == generateMinimizationReport(
                         TreeOf(compilation.parserResult.nodes, 1),
                         compilation.optimizedAST, compileOptions.optimizeAST)
       IN  IF compileOptions.validateBehavior
           THEN /\ compilation' = [compilation EXCEPT !.minimization = report]
                /\ cpc' = IF report.behavioralEquivalence THEN "return" ELSE "thrown"
           ELSE /\ compilation' = compilation
                /\ cpc' = "return"
    /\ UNCHANGED <<compileInput, compileOptions>>
    /\ UNCHANGED notCompile

\* The result is put together and returned (95-115): the tree, the tokens,
\* the errors of both stages and the report.
CompileReturn ==
    /\ cpc = "return"
    /\ compilation' = [compilation EXCEPT !.returned = TRUE]
    /\ cpc' = "returned"
    /\ UNCHANGED <<compileInput, compileOptions>>
    /\ UNCHANGED notCompile

NextCompile ==
    CompileTokenize \/ CompileParse \/ CompileBuildAST \/ CompileValidate \/ CompileReturn

(***************************************************************************)
(* BehavioralEquivalenceValidator (part_005 574-1153).  The trees are the  *)
(* builder's; a Document node also carries documentElement, the tagName of *)
(* the element the parser has set (part_004 837) and Undefined when it has *)
(* set none or cloneNode has reset it (343).  A node's equivalenceClass is *)
(* what the parser has computed for it, which cloneNode copies.  A         *)
(* difference is [type, severity]; its description, paths and impact are   *)
(* left out, as are the confidence and the performance metrics of the      *)
(* report.  Ratios are in per cent.                                        *)
(***************************************************************************)
validationThresholds ==
    [structuralToleranceRatio |-> 5, semanticMatchThreshold |-> 95,
     behavioralEquivalenceThreshold |-> 98, maxAcceptableDifferences |-> 5]

Difference(type, severity) == [type |-> type, severity |-> severity]
Valid == [ok |-> TRUE, differences |-> <<>>]

\* computeEquivalenceClass (part_004 814-821) of a node the parser creates.
computeEquivalenceClass(node) ==
    <<node.type,
      IF node.type = "Element" /\ node.tagName # <<>> THEN LowerStr(node.tagName) ELSE <<>>>>

\* String.prototype.trim.
TrimStr(s) ==
    LET keep == {i \in 1..Len(s) : ~isWhitespace(s[i])}
    IN  IF keep = {} THEN <<>>
        ELSE SubSeq(s, CHOOSE i \in keep : \A j \in keep : i <= j,
                       CHOOSE i \in keep : \A j \in keep : j <= i)

normalizeWhitespace(content, isWs) ==
    IF isWs THEN TrimStr(ReplaceRuns(content, isWhitespace, <<" ">>)) ELSE content

essentialByTag(tagName) ==
    CASE tagName = <<"a">> -> {<<"h", "r", "e", "f">>}
      [] tagName = <<"i", "m", "g">> -> {<<"s", "r", "c">>, <<"a", "l", "t">>}
      [] tagName = <<"i", "n", "p", "u", "t">> ->
            {<<"t", "y", "p", "e">>, <<"n", "a", "m", "e">>, <<"v", "a", "l", "u", "e">>}
      [] tagName = <<"f", "o", "r", "m">> ->
            {<<"a", "c", "t", "i", "o", "n">>, <<"m", "e", "t", "h", "o", "d">>}
      [] tagName = <<"s", "c", "r", "i", "p", "t">> ->
            {<<"s", "r", "c">>, <<"t", "y", "p", "e">>}
      [] tagName = <<"l", "i", "n", "k">> -> {<<"r", "e", "l">>, <<"h", "r", "e", "f">>}
      [] tagName = <<"m", "e", "t", "a">> ->
            {<<"n", "a", "m", "e">>, <<"c", "o", "n", "t", "e", "n", "t">>,
             <<"p", "r", "o", "p", "e", "r", "t", "y">>}
      [] OTHER -> {}

extractEssentialAttributes(element) ==
    LET tagEssentials == essentialByTag(LowerStr(element.tagName))
        isGlobalEssential(key) ==
            \/ key = <<"i", "d">>
            \/ key = <<"c", "l", "a", "s", "s">>
            \/ Len(key) >= 5 /\ SubSeq(key, 1, 5) = <<"d", "a", "t", "a", "-">>
    IN  {a \in element.attributes :
            \/ a[1] \in tagEssentials
            \/ isGlobalEssential(a[1])
            \/ ~isDefaultAttributeValue(element.tagName, a[1], a[2])}

\* One difference for every essential attribute of the original that the
\* optimized element lacks or has with another value.
validateEssentialAttributes(original, optimized) ==
    LET missing == extractEssentialAttributes(original)
                       \ extractEssentialAttributes(optimized)
    IN  [ok |-> missing = {},
         differences |-> [i \in 1..Cardinality(missing) |->
                             Difference("semantic", "critical")]]

validateElementStructure(original, optimized) ==
    LET sameTag == LowerStr(original.tagName) = LowerStr(optimized.tagName)
        essentialAttrsResult == validateEssentialAttributes(original, optimized)
    IN  [ok |-> sameTag /\ essentialAttrsResult.ok,
         differences |->
            (IF sameTag THEN <<>> ELSE <<Difference("structural", "critical")>>)
            \o essentialAttrsResult.differences]

validateTextStructure(original, optimized) ==
    IF normalizeWhitespace(original.content, original.isWhitespace)
          # normalizeWhitespace(optimized.content, optimized.isWhitespace)
    THEN [ok |-> original.isWhitespace,
          differences |-> <<Difference("semantic", IF original.isWhitespace THEN "warning"
                                                   ELSE "critical")>>]
    ELSE Valid

\* validateDocumentStructure of the validator (848-889).
validateDocumentElements(original, optimized) ==
    LET hasOriginalDocElement == original.documentElement # Undefined
        hasOptimizedDocElement == optimized.documentElement # Undefined
    IN  IF hasOriginalDocElement # hasOptimizedDocElement
        THEN [ok |-> FALSE, differences |-> <<Difference("structural", "critical")>>]
        ELSE IF hasOriginalDocElement /\ hasOptimizedDocElement
                  /\ LowerStr(original.documentElement) # LowerStr(optimized.documentElement)
        THEN [ok |-> FALSE, differences |-> <<Difference("structural", "critical")>>]
        ELSE Valid

validateTypeSpecificStructure(original, optimized) ==
    CASE original.type = "Element" -> validateElementStructure(original, optimized)
      [] original.type = "Text" -> validateTextStructure(original, optimized)
      [] original.type = "Document" -> validateDocumentElements(original, optimized)
      [] OTHER -> Valid

\* compareAttributeMaps holds of two Maps exactly when they are equal.
isExactMatch(node1, node2) ==
    IF node1.type # node2.type THEN FALSE
    ELSE CASE node1.type = "Element" ->
                 node1.tagName = node2.tagName /\ node1.attributes = node2.attributes
           [] node1.type = "Text" ->
                 node1.content = node2.content /\ node1.isWhitespace = node2.isWhitespace
           [] OTHER -> TRUE

isSemanticallyEquivalent(node1, node2) ==
    /\ node1.type = node2.type
    /\ computeEquivalenceClass(node1) = computeEquivalenceClass(node2)

\* One pass of createChildMappings from original child i on: the first pass
\* (929-939) matches with isExactMatch, the second (942-955) with
\* isSemanticallyEquivalent and skips the children that are mapped.
RECURSIVE MappingPass(_, _, _, _, _)
MappingPass(exact, original, optimized, i, mappings) ==
    IF i > Len(original) THEN mappings
    ELSE LET usedOptimized == {mappings[k][2] : k \in 1..Len(mappings)}
             existing == \E k \in 1..Len(mappings) : mappings[k][1] = i - 1
             hits == {j \in 1..Len(optimized) :
                         /\ (j - 1) \notin usedOptimized
                         /\ IF exact THEN isExactMatch(original[i], optimized[j])
                            ELSE isSemanticallyEquivalent(original[i], optimized[j])}
         IN  MappingPass(exact, original, optimized, i + 1,
                 IF existing \/ hits = {} THEN mappings
                 ELSE Append(mappings,
                             <<i - 1, (CHOOSE j \in hits : \A h \in hits : j <= h) - 1>>))

createChildMappings(original, optimized) ==
    MappingPass(FALSE, original, optimized, 1,
                MappingPass(TRUE, original, optimized, 1, <<>>))

RECURSIVE validateStructuralEquivalence(_, _)
RECURSIVE ChildrenLoop(_, _, _, _)

\* The loop of validateChildrenStructure (902-918) from mapping k on.
ChildrenLoop(original, optimized, childMappings, k) ==
    IF k > Len(childMappings) THEN Valid
    ELSE LET childResult ==
                 validateStructuralEquivalence(
                     original.children[childMappings[k][1] + 1],
                     optimized.children[childMappings[k][2] + 1])
             rest == ChildrenLoop(original, optimized, childMappings, k + 1)
         IN  [ok |-> childResult.ok /\ rest.ok,
              differences |-> childResult.differences \o rest.differences]

validateChildrenStructure(original, optimized) ==
    ChildrenLoop(original, optimized,
                 createChildMappings(original.children, optimized.children), 1)

\* [ok, differences]: the result and what the call pushes to differences.
validateStructuralEquivalence(original, optimized) ==
    IF original.type # optimized.type
    THEN [ok |-> FALSE, differences |-> <<Difference("structural", "critical")>>]
    ELSE LET originalChildCount == Len(original.children)
             optimizedChildCount == Len(optimized.children)
             distance == IF originalChildCount >= optimizedChildCount
                         THEN originalChildCount - optimizedChildCount
                         ELSE optimizedChildCount - originalChildCount
             typeSpecificResult == validateTypeSpecificStructure(original, optimized)
             childrenResult == validateChildrenStructure(original, optimized)
         IN  [ok |-> typeSpecificResult.ok /\ childrenResult.ok,
              differences |->
                 (IF distance * 100 > validationThresholds.structuralToleranceRatio
                                         * Max(originalChildCount, 1)
                  THEN <<Difference("structural", "warning")>> ELSE <<>>)
                 \o typeSpecificResult.differences \o childrenResult.differences]

\* validateSemanticEquivalence (960-986) and the validator's
\* validateBehavioralEquivalence (988-1011): calculateSemanticSimilarity and
\* compareBehavioralSignatures return 1 for every pair of signatures (1151-1152).
validateSemanticEquivalence(original, optimized) ==
    100 >= validationThresholds.semanticMatchThreshold

validateBehavioralSignatures(original, optimized) ==
    100 >= validationThresholds.behavioralEquivalenceThreshold

determineOverallEquivalence(structural, semantic, behavioral, differenceCount) ==
    /\ structural
    /\ semantic
    /\ behavioral
    /\ differenceCount <= validationThresholds.maxAcceptableDifferences

\* The trees handed to the validator: a document or a div element with up to
\* MaxValKids children.
ValDocument(children, documentElement) ==
    [type |-> "Document", tagName |-> Undefined, attributes |-> {}, selfClosing |-> FALSE,
     content |-> Undefined, isWhitespace |-> FALSE, data |-> Undefined,
     doctype |-> Undefined, children |-> children, documentElement |-> documentElement]

ValChildren ==
    {HText(<<"a">>), HText(<<"b">>), HText(<<"\n">>),
     HElement(<<"p">>, {}, <<HText(<<"a">>)>>), HElement(<<"p">>, {}, <<>>),
     HElement(<<"p">>, {<<<<"i", "d">>, <<"x">>>>}, <<>>)}

\* The documentElement a document can have: none, or the tagName of its last
\* element child.
DocumentElements(children) ==
    LET elements == {i \in 1..Len(children) : children[i].type = "Element"}
    IN  {Undefined} \cup (IF elements = {} THEN {}
                          ELSE {children[CHOOSE i \in elements :
                                            \A j \in elements : j <= i].tagName})

ValTrees ==
    UNION {{HElement(<<"d", "i", "v">>, {}, ch)}
              \cup {ValDocument(ch, d) : d \in DocumentElements(ch)} :
           ch \in SeqsUpTo(ValChildren, MaxValKids)}

NoValidation ==
    [structuralEquivalence |-> FALSE, semanticEquivalence |-> FALSE,
     behavioralEquivalence |-> FALSE, differences |-> <<>>, isEquivalent |-> FALSE]

IdleVal ==
    /\ valOriginal = NoTree
    /\ valOptimized = NoTree
    /\ validation = NoValidation
    /\ vpc = "idle"

\* A new BehavioralEquivalenceValidator with the default thresholds (578-588)
\* and a call of validateEquivalence.
InitValRun ==
    /\ valOriginal \in ValTrees
    /\ valOptimized \in ValTrees
    /\ validation = NoValidation
    /\ vpc = "start"

\* Stage 1 (609).
ValidateStructural ==
    /\ vpc = "start"
    /\ LET structuralResult == validateStructuralEquivalence(valOriginal, valOptimized)
       IN  validation' = [validation EXCEPT
                             !.structuralEquivalence = structuralResult.ok,
                             !.differences = structuralResult.differences]
    /\ vpc' = "structural"
    /\ UNCHANGED <<valOriginal, valOptimized>>
    /\ UNCHANGED notVal

\* Stages 2 to 5 and the report (612-639).
ValidateReport ==
    /\ vpc = "structural"
    /\ LET semanticResult == validateSemanticEquivalence(valOriginal, valOptimized)
           behavioralResult == validateBehavioralSignatures(valOriginal, valOptimized)
       IN  validation' = [validation EXCEPT
                             !.semanticEquivalence = semanticResult,
                             !.behavioralEquivalence = behavioralResult,
                             !.isEquivalent =
                                 determineOverallEquivalence(
                                     validation.structuralEquivalence, semanticResult,
                                     behavioralResult, Len(validation.differences))]
    /\ vpc' = "done"
    /\ UNCHANGED <<valOriginal, valOptimized>>
    /\ UNCHANGED notVal

NextVal == ValidateStructural \/ ValidateReport

(***************************************************************************)
(* HTMLAstOptimizer (ast/HTMLAstOptimizer.ts 36-343) on core/types Nodes,  *)
(* called through DomASM (Node.ts 1411-1466), which keeps one optimizer    *)
(* for all its calls.  A node object of an AST is <<ast, path>>.  The      *)
(* metadata of a node is copied and read by nothing and is left out;       *)
(* Object.freeze of the returned tree changes no field of it.              *)
(***************************************************************************)
MaxAstKids == 2       \* children of a root in the ASTs handed to DomASM.optimize
MaxAstCalls == 3      \* optimize and patch calls on one DomASM instance

\* computeNodeSignature (121-142): the components that are joined by "|".
\* No name of the model's trees is a type name, so that components of
\* different kinds never join to the same string.
computeAstNodeSignature(node) ==
    <<<<"type", node.type>>>>
        \o (IF node.name # "" THEN <<<<"name", node.name>>>> ELSE <<>>)
        \o (IF node.hasAttrs /\ node.attrs # {}
            THEN <<<<"attributes", node.attrs>>>> ELSE <<>>)
        \o (IF node.children # <<>>
            THEN <<<<"children", [i \in 1..Len(node.children) |-> node.children[i].type]>>>>
            ELSE <<>>)

\* buildStateClasses (84-113) on the Map classes, whose keys are 0, 1, ...
\* in the order of the sequence: the signatures with more than one node are
\* set at the keys from 0 on, in the order in which collectSignatures met
\* them, and the entries at the other keys stay.
buildStateClasses(classes, ast, root) ==
    LET order == PreOrder(root, <<>>)
        signature(k) == computeAstNodeSignature(HNodeAt(root, order[k]))
        nodes(k) == {<<ast, order[j]>> : j \in {i \in 1..Len(order) : signature(i) = signature(k)}}
        RECURSIVE Classes(_)
        Classes(k) ==
            IF k > Len(order) THEN <<>>
            ELSE (IF (\A j \in 1..(k - 1) : signature(j) # signature(k))
                        /\ Cardinality(nodes(k)) > 1
                  THEN <<[signature |-> signature(k), nodes |-> nodes(k)]>>
                  ELSE <<>>) \o Classes(k + 1)
        built == Classes(1)
    IN  built \o SubSeq(classes, Len(built) + 1, Len(classes))

\* mergeAdjacentTextNodes (214-233) from child i on; open holds when
\* currentTextNode is the last node of merged.
RECURSIVE MergeAstLoop(_, _, _, _)
MergeAstLoop(children, i, merged, open) ==
    IF i > Len(children) THEN merged
    ELSE IF children[i].type = "Text"
    THEN IF open
         THEN MergeAstLoop(children, i + 1,
                  [merged EXCEPT ![Len(merged)].value = @ \o children[i].value], TRUE)
         ELSE MergeAstLoop(children, i + 1, Append(merged, children[i]), TRUE)
    ELSE MergeAstLoop(children, i + 1, Append(merged, children[i]), FALSE)

mergeAstTextNodes(children) == MergeAstLoop(children, 1, <<>>, FALSE)

\* optimizeNode (150-185) of a node that is not in minimizedNodes, with
\* optimizeChildren (193-206).
RECURSIVE optimizeAstNode(_)
optimizeAstNode(node) ==
    LET kept(child) == child.type = "Text" => (child.value # "" /\ Trim(child.value) # "")
        optimizedChildren == SelectSeq(node.children, kept)
    IN  [type |-> node.type,
         name |-> IF node.name # "" THEN node.name ELSE "",
         value |-> IF node.value # "" THEN node.value ELSE "",
         hasAttrs |-> node.hasAttrs,
         attrs |-> IF node.hasAttrs THEN {p \in node.attrs : p[2] # ""} ELSE {},
         children |-> mergeAstTextNodes([i \in 1..Len(optimizedChildren) |->
                                           optimizeAstNode(optimizedChildren[i])])]

\* computeOptimizationMetrics (264-288): the stateClasses part.
computeOptimizationMetrics(classes) == [count |-> Len(classes)]

\* optimize (53-77) of the AST object ast whose tree is root.  cache is
\* minimizedNodes, whose entry for the root of an AST is the tree that was
\* returned for it (the entries of the nodes below a root are reached only
\* through it).
optimize(classes, cache, ast, root) ==
    LET built == buildStateClasses(classes, ast, root)
        optimizedAST == IF ast \in DOMAIN cache THEN cache[ast] ELSE optimizeAstNode(root)
    IN  [stateClasses |-> built,
         minimizedNodes |-> [o \in DOMAIN cache \cup {ast} |->
                                IF o = ast THEN optimizedAST ELSE cache[o]],
         root |-> optimizedAST,
         optimizationMetrics |-> computeOptimizationMetrics(built)]

\* DiffPatchEngine.patch (1206-1214) from patch i on.
RECURSIVE PatchLoop(_, _, _, _)
PatchLoop(h, root, patches, i) ==
    IF i > Len(patches) THEN h
    ELSE PatchLoop(applyPatch(h, root, patches[i]).heap, root, patches, i + 1)

\* The ASTs of the callers, and the edit scripts they hand to DomASM.patch.
AstItems ==
    {TextNode("a"), TextNode(" "),
     ElementNode("p", {<<"class", "">>, <<"id", "x">>}, <<TextNode("a")>>),
     ElementNode("input", {<<"type", "text">>}, <<>>)}

AstTrees == {RootNode(ch) : ch \in SeqsUpTo(AstItems, MaxAstKids)}

AstObjects == {"ast1", "ast2"}

AstScripts ==
    {<<MkDiff("ADD", <<>>, TextNode("b"), {}, <<>>, <<>>)>>,
     <<MkDiff("UPDATE", <<0>>, NoNode, {<<"class", "set", "y">>}, <<>>, <<>>)>>}

NoOptimization == [ast |-> "", input |-> NoNode, root |-> NoNode, count |-> 0]

IdleAst ==
    /\ asts = [o \in AstObjects |-> NoNode]
    /\ stateClasses = <<>>
    /\ astMinimizedNodes = [o \in {} |-> NoNode]
    /\ optimization = NoOptimization
    /\ astCalls = 0
    /\ apc = "idle"

\* A new DomASM (1420-1424) and the ASTs of its callers.
InitAstRun ==
    /\ asts \in [AstObjects -> AstTrees]
    /\ stateClasses = <<>>
    /\ astMinimizedNodes = [o \in {} |-> NoNode]
    /\ optimization = NoOptimization
    /\ astCalls = 0
    /\ apc = "ready"

\* DomASM.optimize(ast) (1442-1444).
DomOptimize ==
    /\ apc = "ready"
    /\ astCalls < MaxAstCalls
    /\ \E ast \in AstObjects :
          LET r == optimize(stateClasses, astMinimizedNodes, ast, asts[ast])
          IN  /\ stateClasses' = r.stateClasses
              /\ astMinimizedNodes' = r.minimizedNodes
              /\ optimization' = [ast |-> ast, input |-> asts[ast], root |-> r.root,
                                  count |-> r.optimizationMetrics.count]
    /\ astCalls' = astCalls + 1
    /\ UNCHANGED <<asts, apc>>
    /\ UNCHANGED notAst

\* DomASM.patch(ast, patches) (1464-1466): the tree of ast is changed in place.
DomPatch ==
    /\ apc = "ready"
    /\ astCalls < MaxAstCalls
    /\ \E ast \in AstObjects, patches \in AstScripts :
          LET allocated == AllocTree(<<>>, asts[ast])
              patched == PatchLoop(allocated.heap, allocated.id, generatePatches(patches), 1)
          IN  asts' = [asts EXCEPT ![ast] = Unfold(patched, allocated.id, DepthFuel)]
    /\ astCalls' = astCalls + 1
    /\ UNCHANGED <<stateClasses, astMinimizedNodes, optimization, apc>>
    /\ UNCHANGED notAst

NextAst == DomOptimize \/ DomPatch

(***************************************************************************)
(* The legacy HTMLParser (html/_legacy/HTMLParser.ts): buildOptimizedAST   *)
(* (256-287), one action per token.  The nodes are the objects of an       *)
(* arena: node i is nodes[i], with its children as node identities; the    *)
(* root is node 1.  The metadata of a node is written once and read by     *)
(* nothing and is left out.                                                *)
(***************************************************************************)
MaxLegacyTokens == 4  \* tokens before the EOF token in a stream handed to the legacy parser

LegacyNode(type, name, value) ==
    [type |-> type, name |-> name, value |-> value, children |-> <<>>]

\* A token (HTMLToken.ts); isWhitespace is that of a text token.
LegacyToken(type, name, selfClosing, content) ==
    [type |-> type, name |-> name, selfClosing |-> selfClosing, content |-> content,
     isWhitespace |-> type = "Text" /\ content = " "]

\* The EndTag case (325-351): [stack, currentNode].
legacyEndTag(p, token) ==
    LET matches == {i \in 2..Len(p.stack) : p.nodes[p.stack[i]].name = token.name}
    IN  IF Len(p.stack) > 1
        THEN IF matches # {}
             THEN LET i == CHOOSE m \in matches : \A n \in matches : n <= m
                  IN  [stack |-> SubSeq(p.stack, 1, i), currentNode |-> p.stack[i - 1]]
             ELSE [stack |-> SubSeq(p.stack, 1, Len(p.stack) - 1),
                   currentNode |-> p.stack[Len(p.stack) - 1]]
        ELSE [stack |-> p.stack, currentNode |-> p.currentNode]

\* processTokenWithOptimizedState (297-440) on the parser p, for the
\* StartTag, EndTag, Text and EOF tokens.
legacyProcessToken(p, token) ==
    LET id == Len(p.nodes) + 1
        push(node) == [Append(p.nodes, node) EXCEPT ![p.currentNode].children = Append(@, id)]
    IN  CASE token.type = "StartTag" ->
               [p EXCEPT !.nodes = push(LegacyNode("Element", token.name, "")),
                         !.stack = IF token.selfClosing THEN @ ELSE Append(@, id),
                         !.currentNode = IF token.selfClosing THEN @ ELSE id]
          [] token.type = "EndTag" ->
               LET r == legacyEndTag(p, token)
               IN  [p EXCEPT !.stack = r.stack, !.currentNode = r.currentNode]
          [] token.type = "Text" ->
               IF Trim(token.content) # "" \/ token.isWhitespace
               THEN [p EXCEPT !.nodes = push(LegacyNode("Text", "", token.content))]
               ELSE p
          [] OTHER -> p

\* The token streams handed to the parser: they end with the EOF token.
LegacyTokens ==
    {LegacyToken("StartTag", "a", FALSE, ""), LegacyToken("StartTag", "b", FALSE, ""),
     LegacyToken("StartTag", "br", TRUE, ""), LegacyToken("EndTag", "a", FALSE, ""),
     LegacyToken("EndTag", "b", FALSE, ""), LegacyToken("Text", "", FALSE, "a"),
     LegacyToken("Text", "", FALSE, " "), LegacyToken("Text", "", FALSE, "")}

LegacyStreams ==
    {ts \o <<LegacyToken("EOF", "", FALSE, "")>> : ts \in SeqsUpTo(LegacyTokens, MaxLegacyTokens)}

NoLegacy == [nodes |-> <<>>, stack |-> <<>>, currentNode |-> 0, index |-> 0]

IdleLegacy ==
    /\ legacyTokens = <<>>
    /\ legacy = NoLegacy
    /\ lpc = "idle"

\* buildOptimizedAST up to its loop (257-269): the root, on the stack.
InitLegacyRun ==
    /\ legacyTokens \in LegacyStreams
    /\ legacy = [nodes |-> <<LegacyNode("Element", "root", "")>>, stack |-> <<1>>,
                 currentNode |-> 1, index |-> 1]
    /\ lpc = "building"

\* One iteration of the loop of buildOptimizedAST (271-282).
BuildToken ==
    /\ lpc = "building"
    /\ legacy.index <= Len(legacyTokens)
    /\ legacy' = [legacyProcessToken(legacy, legacyTokens[legacy.index])
                    EXCEPT !.index = legacy.index + 1]
    /\ UNCHANGED <<legacyTokens, lpc>>
    /\ UNCHANGED notLegacy

\* The loop is over: buildOptimizedAST returns the root (283-287).
BuildReturn ==
    /\ lpc = "building"
    /\ legacy.index > Len(legacyTokens)
    /\ lpc' = "done"
    /\ UNCHANGED <<legacyTokens, legacy>>
    /\ UNCHANGED notLegacy

NextLegacy == BuildToken \/ BuildReturn

(***************************************************************************)
(* CSSParser (css/parsing/CSSParserError.ts 60-529).  The parser reads the *)
(* type of a token and nothing else of it, so a token is its type; the     *)
(* nodes of the tree are written and never read and are left out.  No      *)
(* CSSParserError is thrown by the parsing methods, so the catch blocks    *)
(* and the errorRecovery option play no part.  position counts from 0.     *)
(***************************************************************************)
MaxCssTokens == 4     \* tokens before the EOF token in a stream handed to the CSS parser
MaxCssIterations == 6 \* iterations of the parser's loops that the model follows

\* peek (503-505): the type of the token at position, "null" past the end.
cssPeek(tokens, position) ==
    IF position < Len(tokens) THEN tokens[position + 1] ELSE "null"

\* addError (521-528).
cssAddError(st, message) == [st EXCEPT !.errors = Append(@, message)]

\* A loop that consumes tokens until the end or a token whose type is in
\* stops: the position after.
RECURSIVE ConsumeUntil(_, _, _)
ConsumeUntil(tokens, position, stops) ==
    IF position < Len(tokens) /\ cssPeek(tokens, position) \notin stops
    THEN ConsumeUntil(tokens, position + 1, stops)
    ELSE position

\* skipWhitespace (440-445).
RECURSIVE skipCssWhitespace(_, _)
skipCssWhitespace(tokens, position) ==
    IF position < Len(tokens) /\ cssPeek(tokens, position) = "Whitespace"
    THEN skipCssWhitespace(tokens, position + 1)
    ELSE position

\* skipToSemicolon (450-464).
skipToSemicolon(tokens, position) ==
    LET stopped == ConsumeUntil(tokens, position, {"null", "Semicolon", "EndBlock"})
    IN  IF cssPeek(tokens, stopped) = "Semicolon" THEN stopped + 1 ELSE stopped

\* parseDeclaration (374-435) on [position, errors, ...].
parseDeclaration(tokens, st) ==
    IF cssPeek(tokens, st.position) \notin {"Property", "Selector"} THEN st
    ELSE LET afterProperty == skipCssWhitespace(tokens, st.position + 1)
         IN  IF cssPeek(tokens, afterProperty) # "Colon"
             THEN [cssAddError([st EXCEPT !.position = afterProperty],
                               "Expected : after property name")
                      EXCEPT !.position = skipToSemicolon(tokens, afterProperty)]
             ELSE LET afterValues ==
                          ConsumeUntil(tokens, skipCssWhitespace(tokens, afterProperty + 1),
                                       {"null", "EOF", "Semicolon", "EndBlock"})
                  IN  [st EXCEPT !.position =
                          IF cssPeek(tokens, afterValues) = "Semicolon"
                          THEN afterValues + 1 ELSE afterValues]

\* The end of parseRule (288-293) and of parseBlock (318-323): the closing brace.
closeBlock(tokens, st) ==
    IF cssPeek(tokens, st.position) = "EndBlock"
    THEN [st EXCEPT !.position = @ + 1, !.block = "none"]
    ELSE [cssAddError(st, IF st.block = "rule" THEN "Expected } at end of rule"
                          ELSE "Expected } at end of block")
             EXCEPT !.block = "none"]

\* parseRule (236-302) up to its call of parseDeclarations.
parseRule(tokens, st) ==
    LET stopped == ConsumeUntil(tokens, st.position, {"null", "EOF", "StartBlock"})
    IN  IF cssPeek(tokens, stopped) = "StartBlock"
        THEN [st EXCEPT !.position = stopped + 1, !.block = "rule"]
        ELSE [st EXCEPT !.position = stopped]

\* parseAtRule (186-229) up to the call of parseDeclarations in parseBlock.
parseAtRule(tokens, st) ==
    LET stopped == ConsumeUntil(tokens, st.position + 1,
                                {"null", "EOF", "StartBlock", "Semicolon"})
    IN  CASE cssPeek(tokens, stopped) = "StartBlock" ->
               [st EXCEPT !.position = stopped + 1, !.block = "block"]
          [] cssPeek(tokens, stopped) = "Semicolon" -> [st EXCEPT !.position = stopped + 1]
          [] OTHER -> cssAddError([st EXCEPT !.position = stopped],
                                  "Expected { or ; after at-rule")

\* The token streams handed to the parser: they end with the EOF token.
CssTokenTypes ==
    {"Selector", "Property", "StartBlock", "EndBlock", "Colon", "Semicolon", "Number",
     "Whitespace", "AtKeyword"}

CssStreams == {ts \o <<"EOF">> : ts \in SeqsUpTo(CssTokenTypes, MaxCssTokens)}

NoCss == [position |-> 0, errors |-> <<>>, block |-> "none", iterations |-> 0]

IdleCss ==
    /\ cssTokens = <<>>
    /\ css = NoCss
    /\ cssPc = "idle"

\* new CSSParser(tokens) (87-97) and the call of parse.
InitCssRun ==
    /\ cssTokens \in CssStreams
    /\ css = NoCss
    /\ cssPc = "stylesheet"

\* One iteration of the loop of parseStylesheet (120-179), up to the loop of
\* parseDeclarations when a block is opened; when the loop is left, the
\* rest of parse (104-113).
ParseStylesheetStep ==
    /\ cssPc = "stylesheet"
    /\ css.iterations < MaxCssIterations
    /\ LET token == cssPeek(cssTokens, css.position)
           counted == [css EXCEPT !.iterations = @ + 1]
       IN  IF token \in {"null", "EOF"}
           THEN /\ css' = IF css.position < Len(cssTokens) - 1
                          THEN cssAddError(counted, "Unexpected tokens at end of input")
                          ELSE counted
                /\ cssPc' = "done"
           ELSE /\ css' = CASE token \in {"Comment", "Whitespace"} ->
                                 [counted EXCEPT !.position = @ + 1]
                            [] token = "AtKeyword" -> parseAtRule(cssTokens, counted)
                            [] OTHER -> parseRule(cssTokens, counted)
                /\ cssPc' = IF css'.block = "none" THEN "stylesheet" ELSE "declarations"
    /\ UNCHANGED cssTokens
    /\ UNCHANGED notCss

\* One iteration of the loop of parseDeclarations (333-367); when the loop
\* is left, the rest of parseRule or parseBlock.
ParseDeclarationsStep ==
    /\ cssPc = "declarations"
    /\ css.iterations < MaxCssIterations
    /\ LET token == cssPeek(cssTokens, css.position)
           counted == [css EXCEPT !.iterations = @ + 1]
       IN  IF token \in {"null", "EOF", "EndBlock"}
           THEN /\ css' = closeBlock(cssTokens, counted)
                /\ cssPc' = "stylesheet"
           ELSE /\ css' = IF token \in {"Whitespace", "Comment"}
                          THEN [counted EXCEPT !.position = @ + 1]
                          ELSE parseDeclaration(cssTokens, counted)
                /\ cssPc' = "declarations"
    /\ UNCHANGED cssTokens
    /\ UNCHANGED notCss

NextCss == ParseStylesheetStep \/ ParseDeclarationsStep

(***************************************************************************)
(* The specifications: one per component, the others idle; Spec runs any   *)
(* one of them.                                                            *)
(***************************************************************************)
InitDiff == InitDiffRun /\ IdleMin /\ IdleTok /\ IdleParse /\ IdleOpt /\ IdleCompile /\ IdleVal /\ IdleAst /\ IdleLegacy /\ IdleCss
NextDiff == Diff \/ PatchBegin \/ ApplyPatch
SpecDiff == InitDiff /\ [][NextDiff]_vars

InitMin == IdleDiff /\ InitMinRun /\ IdleTok /\ IdleParse /\ IdleOpt /\ IdleCompile /\ IdleVal /\ IdleAst /\ IdleLegacy /\ IdleCss
SpecMin == InitMin /\ [][NextMin]_vars
\* minimize is one synchronous call: it keeps taking its steps until it returns.
SpecMinFair == SpecMin /\ WF_vars(NextMin)

InitTok == IdleDiff /\ IdleMin /\ InitTokRun /\ IdleParse /\ IdleOpt /\ IdleCompile /\ IdleVal /\ IdleAst /\ IdleLegacy /\ IdleCss
SpecTok == InitTok /\ [][NextTok]_vars

InitParse == IdleDiff /\ IdleMin /\ IdleTok /\ InitParseRun /\ IdleOpt /\ IdleCompile /\ IdleVal /\ IdleAst /\ IdleLegacy /\ IdleCss
SpecParse == InitParse /\ [][NextParse]_vars

InitOpt == IdleDiff /\ IdleMin /\ IdleTok /\ IdleParse /\ InitOptRun /\ IdleCompile /\ IdleVal /\ IdleAst /\ IdleLegacy /\ IdleCss
SpecOpt == InitOpt /\ [][NextOpt]_vars

InitCompile == IdleDiff /\ IdleMin /\ IdleTok /\ IdleParse /\ IdleOpt /\ InitCompileRun /\ IdleVal /\ IdleAst /\ IdleLegacy /\ IdleCss
SpecCompile == InitCompile /\ [][NextCompile]_vars

InitVal == IdleDiff /\ IdleMin /\ IdleTok /\ IdleParse /\ IdleOpt /\ IdleCompile /\ InitValRun /\ IdleAst /\ IdleLegacy /\ IdleCss
SpecVal == InitVal /\ [][NextVal]_vars

InitAst == IdleDiff /\ IdleMin /\ IdleTok /\ IdleParse /\ IdleOpt /\ IdleCompile /\ IdleVal /\ InitAstRun /\ IdleLegacy /\ IdleCss
SpecAst == InitAst /\ [][NextAst]_vars

InitLegacy == IdleDiff /\ IdleMin /\ IdleTok /\ IdleParse /\ IdleOpt /\ IdleCompile /\ IdleVal /\ IdleAst /\ InitLegacyRun /\ IdleCss
SpecLegacy == InitLegacy /\ [][NextLegacy]_vars

InitCss == IdleDiff /\ IdleMin /\ IdleTok /\ IdleParse /\ IdleOpt /\ IdleCompile /\ IdleVal /\ IdleAst /\ IdleLegacy /\ InitCssRun
SpecCss == InitCss /\ [][NextCss]_vars

Init == InitDiff \/ InitMin \/ InitTok \/ InitParse \/ InitOpt \/ InitCompile \/ InitVal \/ InitAst \/ InitLegacy \/ InitCss
Next == NextDiff \/ NextMin \/ NextTok \/ NextParse \/ NextOpt \/ NextCompile \/ NextVal \/ NextAst \/ NextLegacy \/ NextCss
Spec == Init /\ [][Next]_vars

(***************************************************************************)
(* Claims about the minimizer, checked under SpecMin.                      *)
(***************************************************************************)
Words == SeqsUpTo(Symbols, MaxWord)

\* C2: the automaton returned by minimize accepts a symbol sequence iff the
\* original automaton accepts it, for every sequence up to the bound.
C2_MinimizedAcceptsSame ==
    mpc = "done" => \A w \in Words : Accepts(minimized, w) <=> Accepts(machine, w)

\* The block of the partition that holds the state id (0 when none does).
BlockOf(part, id) == FindBlock(part, id) + 1

\* C22: after refinement every block of the final partition yields exactly
\* one state of the minimized automaton, and every state of the original
\* automaton is mapped to the minimized state of its block's representative.
C22_BlocksBecomeStates ==
    mpc = "merged" =>
        /\ Len(minimized.states) = Len(partition)
        /\ \A k \in 1..Len(partition) :
              Cardinality({i \in 1..Len(minimized.states) :
                              minimized.states[i].id = MinId(partition[k][1].id)}) = 1
        /\ \A i \in 1..Len(machine.states) :
              StateMapping(classesBySignature(partition), machine.states[i].id)
                  = MinId(partition[BlockOf(partition, machine.states[i].id)][1].id)

\* C23: the initial state of the minimized automaton is the representative
\* of the block that holds the original initial state, whatever its id is.
C23_InitialIsBlockOfInitial ==
    mpc \in {"merged", "done"} =>
        minimized.initialState
            = MinId(partition[BlockOf(partition, machine.initialState)][1].id)

\* C24: refinement terminates; in every round the number of blocks does not
\* decrease and does not exceed the number of states, and the loop stops at
\* the first round in which no block splits, and at no earlier round.
C24_RefinementTerminates ==
    /\ [][mpc = "refining" =>
            /\ Len(partition') >= Len(partition)
            /\ Len(partition') <= Len(machine.states)
            /\ (mpc' = "refined") <=> (Len(partition') = Len(partition))
            /\ mpc' \in {"refined", "refining"}]_vars
    /\ <>(mpc = "done")

\* C24 witness: the loop goes on after a round that has split a block.
C24_Witness ==
    /\ mpc = "refining"
    /\ Len(partition) > Len(initialPartition(machine.states))

RECURSIVE MergeText(_)
MergeText(kids) ==
    IF Len(kids) < 2 THEN kids
    ELSE LET rest == MergeText(Tail(kids))
         IN  IF Head(kids).type = "Text" /\ Head(rest).type = "Text"
             THEN <<[Head(kids) EXCEPT !.text = @ \o Head(rest).text]>> \o Tail(rest)
             ELSE <<Head(kids)>> \o rest

RECURSIVE Normal(_)
Normal(node) ==
    [type |-> node.type,
     name |-> IF node.type = "Element" THEN node.name ELSE "",
     attrs |-> IF node.hasAttrs THEN node.attrs ELSE {},
     text |-> IF node.type = "Text" THEN <<node.value>> ELSE <<>>,
     children |-> MergeText([i \in 1..Len(node.children) |-> Normal(node.children[i])])]

StructurallyEquivalent(a, b) == Normal(a) = Normal(b)

\* C1: patch(A, diff(A, B)) is structurally equivalent to B.
C1_PatchOfDiffYieldsNew ==
    dpc = "patched" => StructurallyEquivalent(PatchedTree, newAST)

\* C6: diff of a tree against itself returns the empty edit script.
C6_DiffIdentity ==
    (dpc = "diffed" /\ oldAST = newAST) => diffs = <<>>

\* The rank the claim gives the operation types: remove, move, replace,
\* update, insert.
TypeRank(t) == CASE t = "REMOVE" -> 1 [] t = "MOVE" -> 2 [] t = "REPLACE" -> 3
                 [] t = "UPDATE" -> 4 [] t = "ADD" -> 5

\* C10: in every edit script returned by diff all removes come before all
\* moves, before all replaces, before all updates, before all inserts.
C10_TypesOrdered ==
    dpc # "start" =>
        \A i, j \in 1..Len(diffs) :
            i < j => TypeRank(diffs[i].type) <= TypeRank(diffs[j].type)

\* C10 witness: a returned script that holds three operation types.
C10_Witness ==
    /\ dpc = "diffed"
    /\ Cardinality({diffs[i].type : i \in 1..Len(diffs)}) >= 3

\* C11: within one operation type of a returned edit script, an operation on
\* a deeper path never comes after an operation on a shallower path.
C11_DeeperFirstWithinType ==
    dpc # "start" =>
        \A i, j \in 1..Len(diffs) :
            (i < j /\ diffs[i].type = diffs[j].type)
                => Len(diffs[i].path) >= Len(diffs[j].path)

\* The sibling lists of the two roots hold the same children, every child
\* with a key of its own, in a different order.
KeyedReorder ==
    /\ useKeyAttribute # ""
    /\ oldAST.type = "Element" /\ newAST.type = "Element"
    /\ Len(oldAST.children) = Len(newAST.children)
    /\ oldAST.children # newAST.children
    /\ \A i \in 1..Len(oldAST.children) :
          /\ KeyOf(oldAST.children[i], useKeyAttribute) # ""
          /\ \A j \in 1..Len(oldAST.children) :
                i # j => KeyOf(oldAST.children[i], useKeyAttribute)
                           # KeyOf(oldAST.children[j], useKeyAttribute)
          /\ \E j \in 1..Len(newAST.children) : newAST.children[j] = oldAST.children[i]

\* C12: for two trees whose keyed sibling lists differ in order only, the
\* edit script holds move operations and no remove or insert operation.
C12_KeyedReorderMovesOnly ==
    (dpc = "diffed" /\ KeyedReorder)
        => /\ \E i \in 1..Len(diffs) : diffs[i].type = "MOVE"
           /\ \A i \in 1..Len(diffs) : diffs[i].type \notin {"REMOVE", "ADD"}

\* The pairs of nodes diffNodes is called on, with the path of the call:
\* the roots, the siblings matched by key or by the longest common
\* subsequence, and so on below them.
RECURSIVE ComparedPairs(_, _, _, _)
ComparedPairs(oldNode, newNode, path, keyAttr) ==
    LET old == oldNode.children
        new == newNode.children
        pairs == IF keyAttr # ""
                 THEN {<<i - 1, NewKeyIndex(new, KeyOf(old[i], keyAttr), keyAttr)>> :
                          i \in {k \in 1..Len(old) :
                                    /\ KeyOf(old[k], keyAttr) # ""
                                    /\ NewKeyIndex(new, KeyOf(old[k], keyAttr), keyAttr) >= 0}}
                 ELSE LET m == extractMatchedPairs(old, new, Len(old), Len(new))
                      IN  {m[k] : k \in 1..Len(m)}
    IN  {<<path, oldNode, newNode>>}
        \cup (IF oldNode.type # newNode.type \/ oldNode.type = "Text" THEN {}
              ELSE UNION {ComparedPairs(old[p[1] + 1], new[p[2] + 1],
                                        Append(path, p[2]), keyAttr) : p \in pairs})

\* C13: two nodes compared at one path that differ in kind or in element
\* name give a replace or an update operation at that path.
C13_MismatchGivesReplaceOrUpdate ==
    dpc = "diffed" =>
        \A c \in ComparedPairs(oldAST, newAST, <<>>, useKeyAttribute) :
            (c[2].type # c[3].type \/ c[2].name # c[3].name)
                => \E i \in 1..Len(diffs) :
                      /\ diffs[i].path = c[1]
                      /\ diffs[i].type \in {"REPLACE", "UPDATE"}

\* C14: a patch whose path does not resolve in the tree leaves the tree as
\* it is, is recorded as a warning, and the run goes on with the next patch
\* of the script (or ends normally when it was the last).
C14_UnresolvedPathSkipped ==
    [][(dpc = "patching"
            /\ findNodeByPath(heap, PatchRoot, diffs[patchNext].path) = 0)
        => /\ heap' = heap
           /\ warnings' = warnings + 1
           /\ patchNext' = patchNext + 1
           /\ dpc' = IF patchNext = Len(diffs) THEN "patched" ELSE "patching"]_vars

\* The heap after the first k patches of the script.
RECURSIVE HeapAfter(_)
HeapAfter(k) ==
    IF k = 0 THEN AllocTree(<<>>, oldAST).heap
    ELSE applyPatch(HeapAfter(k - 1), PatchRoot, generatePatches(diffs)[k]).heap

\* C14 witness: a finished run in which a patch was skipped for its path and
\* a later patch of the script changed the tree.
C14_Witness ==
    /\ dpc = "patched"
    /\ heap = HeapAfter(Len(diffs))
    /\ \E k \in 1..Len(diffs) :
          /\ findNodeByPath(HeapAfter(k - 1), PatchRoot, diffs[k].path) = 0
          /\ \E m \in (k + 1)..Len(diffs) : HeapAfter(m) # HeapAfter(m - 1)

\* C28: in key-based matching of the sibling lists of the two roots, the
\* returned edit script has a remove at the place of every old sibling whose
\* key no new sibling carries, and an insert at the place of every new
\* sibling whose key no old sibling carries.
C28_KeyedRemovesAndInserts ==
    (dpc = "diffed" /\ useKeyAttribute # "") =>
        LET old == oldAST.children
            new == newAST.children
            Keys(list) == {KeyOf(list[i], useKeyAttribute) : i \in 1..Len(list)}
        IN  /\ \A i \in 1..Len(old) :
                  (KeyOf(old[i], useKeyAttribute) # ""
                      /\ KeyOf(old[i], useKeyAttribute) \notin Keys(new))
                  => \E k \in 1..Len(diffs) :
                        diffs[k].type = "REMOVE" /\ diffs[k].path = <<i - 1>>
            /\ \A j \in 1..Len(new) :
                  (KeyOf(new[j], useKeyAttribute) # ""
                      /\ KeyOf(new[j], useKeyAttribute) \notin Keys(old))
                  => \E k \in 1..Len(diffs) :
                        diffs[k].type = "ADD" /\ diffs[k].path = <<j - 1>>

\* The sets of index pairs that match two sibling lists in order: increasing
\* in both indices, every pair equal under areNodesEqual.
CommonSubsequences(old, new) ==
    {m \in SUBSET ((0..(Len(old) - 1)) \X (0..(Len(new) - 1))) :
        /\ \A p \in m : areNodesEqual(old[p[1] + 1], new[p[2] + 1])
        /\ \A p, q \in m : p # q => (p[1] < q[1] /\ p[2] < q[2]) \/ (q[1] < p[1] /\ q[2] < p[2])}

\* C29: in positional matching of the sibling lists of the two roots, the
\* matched index pairs increase strictly in the old and in the new index,
\* every pair is equal under areNodesEqual, and there are as many pairs as a
\* longest common subsequence of the two lists has.
C29_PositionalPairsAreLCS ==
    (dpc = "diffed" /\ useKeyAttribute = "") =>
        LET old == oldAST.children
            new == newAST.children
            pairs == extractMatchedPairs(old, new, Len(old), Len(new))
        IN  /\ \A k \in 1..(Len(pairs) - 1) :
                  pairs[k][1] < pairs[k + 1][1] /\ pairs[k][2] < pairs[k + 1][2]
            /\ \A k \in 1..Len(pairs) :
                  areNodesEqual(old[pairs[k][1] + 1], new[pairs[k][2] + 1])
            /\ \A m \in CommonSubsequences(old, new) : Cardinality(m) <= Len(pairs)

\* C29 witness: positional matching has paired siblings at different places
\* of two lists of two.
C29_Witness ==
    /\ dpc = "diffed" /\ useKeyAttribute = ""
    /\ Len(oldAST.children) = 2 /\ Len(newAST.children) = 2
    /\ LET pairs == extractMatchedPairs(oldAST.children, newAST.children, 2, 2)
       IN  Len(pairs) = 1 /\ pairs[1][1] # pairs[1][2]

\* C26: a remove operation whose path resolves to a node other than the
\* root takes that node out of its parent's child list, which is one shorter
\* afterwards.
C26_RemoveDeletesFromParent ==
    [][(/\ dpc = "patching"
        /\ diffs[patchNext].type = "REMOVE"
        /\ diffs[patchNext].path # <<>>
        /\ findNodeByPath(heap, PatchRoot, diffs[patchNext].path) # 0)
        => LET path == diffs[patchNext].path
               node == findNodeByPath(heap, PatchRoot, path)
               parent == findNodeByPath(heap, PatchRoot, SubSeq(path, 1, Len(path) - 1))
           IN  /\ Len(heap'[parent].kids) = Len(heap[parent].kids) - 1
               /\ \A i \in 1..Len(heap'[parent].kids) : heap'[parent].kids[i] # node]_vars

\* The places of the tree below object id: one per path from id.
RECURSIVE Places(_, _, _)
Places(h, id, fuel) ==
    {<<id>>} \cup (IF fuel = 0 THEN {}
                   ELSE UNION {{<<id>> \o pl : pl \in Places(h, h[id].kids[i], fuel - 1)} :
                                  i \in 1..Len(h[id].kids)})

\* The number of nodes of the tree below object id, counted place by place.
RECURSIVE NodeCount(_, _, _)
NodeCount(h, id, fuel) ==
    LET RECURSIVE Sum(_)
        Sum(i) == IF i > Len(h[id].kids) THEN 0
                  ELSE NodeCount(h, h[id].kids[i], fuel - 1) + Sum(i + 1)
    IN  1 + (IF fuel = 0 THEN 0 ELSE Sum(1))

\* No object is the child of two objects or twice the child of one.
TreeShaped(h, root) ==
    LET objects == {pl[Len(pl)] : pl \in Places(h, root, DepthFuel)}
    IN  \A o \in objects :
            Cardinality({<<q, i>> \in objects \X (1..Len(h)) :
                            i <= Len(h[q].kids) /\ h[q].kids[i] = o}) <= 1

\* C27: after patch has applied an edit script the result is tree-shaped, no
\* node occurring twice in it, and a move operation leaves the number of
\* nodes of the tree as it was.
C27_PatchKeepsTreeShape ==
    /\ [](dpc = "patched" => TreeShaped(heap, PatchRoot))
    /\ [][(dpc = "patching" /\ diffs[patchNext].type = "MOVE")
            => NodeCount(heap', PatchRoot, DepthFuel)
                  = NodeCount(heap, PatchRoot, DepthFuel)]_vars

(***************************************************************************)
(* Claims about the tokenizer, checked under SpecTok.                      *)
(***************************************************************************)
\* The source spans input[start..end) of the tokens, one after the other.
RECURSIVE SpanConcat(_, _)
SpanConcat(inp, tokens) ==
    IF tokens = <<>> THEN <<>>
    ELSE Slice(inp, Head(tokens).start, Head(tokens).end) \o SpanConcat(inp, Tail(tokens))

\* C5: with default options, the source spans of the emitted tokens, joined
\* in stream order, are the input text.
C5_SpansReproduceInput ==
    (tpc = "done" /\ tokOptions = DefaultTokenizerOptions)
        => SpanConcat(input, scanner.tokens) = input

\* The text <!-- abc and what the claim says its scan returns: one
\* diagnostic, unterminated comment, and two tokens, a comment of " abc"
\* and the end of input.
UnterminatedComment == <<"<", "!", "-", "-", " ", "a", "b", "c">>

OneCommentThenEOF ==
    /\ Len(scanner.errors) = 1
    /\ scanner.errors[1].message = "Unterminated comment"
    /\ Len(scanner.tokens) = 2
    /\ scanner.tokens[1].type = "Comment"
    /\ scanner.tokens[1].data = <<" ", "a", "b", "c">>
    /\ scanner.tokens[2].type = "EOF"

\* C18 as stated: in recovery mode the scan of <!-- abc returns exactly one
\* diagnostic, unterminated comment, and exactly two tokens: a comment of
\* " abc" and the end of input.
C18_UnterminatedCommentAsStated ==
    (tpc = "done" /\ input = UnterminatedComment /\ tokOptions.errorRecovery)
        => OneCommentThenEOF

\* C18 amended: in recovery mode with comment tokens included (the default)
\* the scan of <!-- abc returns exactly one diagnostic, unterminated
\* comment, and exactly two tokens: a comment of " abc" and the end of input.
C18_UnterminatedComment ==
    (tpc = "done" /\ input = UnterminatedComment
        /\ tokOptions.errorRecovery /\ tokOptions.includeComments)
        => OneCommentThenEOF

\* C18 witness: the finished scan of <!-- abc with default options.
C18_Witness ==
    /\ tpc = "done"
    /\ input = UnterminatedComment
    /\ tokOptions = DefaultTokenizerOptions
    /\ scanner.position = 8
    /\ scanner.tokens[1].data = <<" ", "a", "b", "c">>

\* C19: in strict mode the first diagnostic halts the scan: no token but
\* the end-of-input token starts after the position of the first diagnostic.
C19_StrictModeHalts ==
    (tpc = "done" /\ tokOptions.strictMode /\ scanner.errors # <<>>)
        => \A i \in 1..Len(scanner.tokens) :
              scanner.tokens[i].type # "EOF"
                  => scanner.tokens[i].start <= scanner.errors[1].offset

\* C20: every token of the stream has end >= start, and each token starts
\* at or after the end of the token before it.
C20_SpansMonotonic ==
    /\ \A i \in 1..Len(scanner.tokens) :
          scanner.tokens[i].end >= scanner.tokens[i].start
    /\ \A i \in 1..(Len(scanner.tokens) - 1) :
          scanner.tokens[i + 1].start >= scanner.tokens[i].end

\* C20 witness: the finished scan of a text and a comment, whose spans leave
\* a gap (the "<" of the comment) before the end-of-input token.
C20_Witness ==
    /\ tpc = "done"
    /\ Len(scanner.tokens) = 3
    /\ scanner.tokens[1].type = "Text"
    /\ scanner.tokens[1].end > scanner.tokens[1].start
    /\ scanner.tokens[2].type = "Comment"
    /\ scanner.tokens[2].start = scanner.tokens[1].end + 1
    /\ scanner.tokens[2].end > scanner.tokens[2].start
    /\ scanner.tokens[3].type = "EOF"
    /\ scanner.tokens[3].start = scanner.tokens[2].end

\* The terminator occurs in the input at or after position from.
TerminatorFrom(inp, from, terminator) ==
    \E q \in from..(Len(inp) - Len(terminator)) : checkString(inp, q, terminator)

\* C37: an "unterminated" diagnostic is recorded for a comment or a CDATA
\* section only when the input ends without the terminator of the section:
\* a section that its terminator closes, at the end of the input too, gives
\* no such diagnostic.
C37_UnterminatedOnlyWithoutTerminator ==
    tpc = "done" =>
        \A k \in 1..Len(scanner.errors) :
            LET e == scanner.errors[k]
            IN  /\ e.message = "Unterminated comment"
                      => ~TerminatorFrom(input, e.offset + 4, <<"-", "-", ">">>)
                /\ e.message = "Unterminated CDATA section"
                      => ~TerminatorFrom(input, e.offset + 9, <<"]", "]", ">">>)

\* C38: tokenize terminates: every iteration of its loop moves the read
\* position forward by at least one character, the position never passes
\* the end of the input, and the loop is left when the position is there.
C38_ScanAdvances ==
    /\ [][(tpc = "scanning" /\ ~isAtEnd(input, scanner.position))
            => /\ scanner'.position > scanner.position
               /\ tpc' = "scanning"]_vars
    /\ [][(tpc = "scanning" /\ isAtEnd(input, scanner.position))
            => tpc' = "done"]_vars
    /\ [](scanner.position <= Len(input))

\* C38 witness: the loop is between two iterations, inside the input, after
\* a handler that read more than one character.
C38_Witness ==
    /\ tpc = "scanning"
    /\ scanner.position > 1
    /\ ~isAtEnd(input, scanner.position)
    /\ Len(scanner.tokens) = 1

(***************************************************************************)
(* Claims about the parser, checked under SpecParse.                       *)
(***************************************************************************)
\* The token the loop is at, and the stack indices of the open elements
\* that an end tag names.
AtToken(type) ==
    ppc = "parsing" /\ parser.next <= Len(ptokens) /\ ptokens[parser.next].type = type
OpenMatches ==
    {i \in 1..Len(parser.stack) :
        /\ parser.nodes[parser.stack[i]].type = "Element"
        /\ LowerStr(parser.nodes[parser.stack[i]].tagName)
               = LowerStr(ptokens[parser.next].name)}
TopMatch == CHOOSE i \in OpenMatches : \A j \in OpenMatches : j <= i

\* C8: in strict-nesting mode, a close tag that names an open element below
\* the top of the stack raises an unmatched-end-tag diagnostic and parsing
\* aborts: the step pops nothing and records the diagnostic.
C8_StrictCloseBelowTopRaises ==
    [][(AtToken("EndTag") /\ parserOptions.strictNesting
            /\ OpenMatches # {} /\ TopMatch < Len(parser.stack))
        => /\ parser'.stack = parser.stack
           /\ Len(parser'.caught) + Len(parser'.errors)
                > Len(parser.caught) + Len(parser.errors)]_vars

\* C9: in tolerant mode, a close tag that names an element anywhere on the
\* stack pops that element and everything above it, the parent of the
\* matched element becomes the insertion point, no error is raised and the
\* tree is not changed; every node a step adds is appended to the insertion
\* point.
C9_TolerantClosePopsThrough ==
    [][/\ (AtToken("EndTag") /\ ~parserOptions.strictNesting /\ OpenMatches # {})
           => /\ parser'.stack = SubSeq(parser.stack, 1, TopMatch - 1)
              /\ parser'.currentNode = parser.nodes[parser.stack[TopMatch]].parent
              /\ parser'.nodes = parser.nodes
              /\ parser'.caught = parser.caught
              /\ parser'.errors = parser.errors
       /\ (ppc = "parsing" /\ Len(parser'.nodes) > Len(parser.nodes))
           => /\ Len(parser'.nodes) = Len(parser.nodes) + 1
              /\ parser'.nodes[Len(parser'.nodes)].parent = parser.currentNode
              /\ parser'.nodes[parser.currentNode].children
                    = Append(parser.nodes[parser.currentNode].children, Len(parser'.nodes))
      ]_vars

\* <div><span></div>a in tolerant mode: the close tag has closed both
\* elements and the text is a child of the document, after the div.
C9_Witness ==
    /\ ~parserOptions.strictNesting
    /\ ppc = "done"
    /\ Len(ptokens) = 5
    /\ ptokens[3].type = "EndTag"
    /\ Len(parser.nodes) = 4
    /\ parser.nodes[2].tagName = <<"d", "i", "v">>
    /\ parser.nodes[3].tagName = <<"s", "p", "a", "n">>
    /\ parser.nodes[3].parent = 2
    /\ parser.nodes[4].type = "Text"
    /\ parser.nodes[1].children = <<2, 4>>
    /\ parser.caught = <<>>
    /\ parser.errors = <<>>

\* C15: when the end of the tokens is reached in tolerant mode with elements
\* still open, the diagnostics of the returned result hold a diagnostic for
\* the unclosed elements.
C15_UnclosedAtEndDiagnosed ==
    (ppc = "done" /\ ~parserOptions.strictNesting
        /\ parser.next > Len(ptokens) /\ Len(parser.stack) > 1)
        => \/ \E i \in 1..Len(parser.errors) : parser.errors[i] = "Unclosed tags"
           \/ \E i \in 1..Len(parser.caught) : parser.caught[i] = "Unclosed tags"

\* C17: in tolerant mode, a close tag that names no open element leaves the
\* tree, the stack of open elements and the insertion point as they are.
C17_TolerantUnmatchedCloseIgnored ==
    [][(AtToken("EndTag") /\ ~parserOptions.strictNesting /\ OpenMatches = {})
        => /\ parser'.nodes = parser.nodes
           /\ parser'.stack = parser.stack
           /\ parser'.currentNode = parser.currentNode]_vars

\* <div></span>a in tolerant mode: the div is still open after the close
\* tag and the text has become its child.
C17_Witness ==
    /\ ~parserOptions.strictNesting
    /\ ppc = "done"
    /\ Len(ptokens) = 4
    /\ ptokens[1].type = "StartTag" /\ ptokens[1].name = <<"d", "i", "v">>
    /\ ptokens[2].type = "EndTag" /\ ptokens[2].name = <<"s", "p", "a", "n">>
    /\ ptokens[3].type = "Text"
    /\ Len(parser.nodes) = 3
    /\ parser.nodes[3].type = "Text"
    /\ parser.nodes[3].parent = 2
    /\ parser.nodes[2].children = <<3>>
    /\ parser.stack = <<1, 2>>
    /\ parser.currentNode = 2
(***************************************************************************)
(* Claims about the builder, checked under SpecOpt.                        *)
(***************************************************************************)
\* The text of a tree: the contents of its text nodes in document order.
RECURSIVE TextContent(_)
TextContent(node) ==
    IF node.type = "Text" THEN node.content
    ELSE Concat([i \in 1..Len(node.children) |-> TextContent(node.children[i])])

\* A tree without its text nodes: the elements with the attributes that are
\* not defaults, and the other nodes, in child order.
RECURSIVE Skeleton(_)
Skeleton(node) ==
    LET RECURSIVE Kids(_)
        Kids(i) == IF i > Len(node.children) THEN <<>>
                   ELSE (IF node.children[i].type = "Text" THEN <<>>
                         ELSE <<Skeleton(node.children[i])>>) \o Kids(i + 1)
    IN  <<node.type, node.tagName,
          IF node.type = "Element" THEN getEssentialAttributes(node) ELSE {}, Kids(1)>>

\* C3: the tree returned by the optimizer has the text, the attribute
\* meaning and the child order of the tree it was given.
C3_OptimizePreservesContent ==
    opc \in {"once", "twice"}
        => /\ TextContent(optOnce) = TextContent(optTree)
           /\ Skeleton(optOnce) = Skeleton(optTree)

\* C30: during optimization two nodes of the tree are put in one equivalence
\* class if and only if they have the same kind, the same name, the same
\* attribute pairs and the same sequence of child kinds.
C30_ClassIffSameShape ==
    (opc = "once" /\ optimizeFlag) =>
        LET order == PreOrder(optTree, <<>>)
            ChildKinds(n) == [i \in 1..Len(n.children) |-> n.children[i].type]
        IN  \A j, k \in 1..Len(order) :
                LET a == HNodeAt(optTree, order[j])
                    b == HNodeAt(optTree, order[k])
                IN  j # k =>
                      ((computeNodeSignature(a) = computeNodeSignature(b))
                        <=> (/\ a.type = b.type
                             /\ a.tagName = b.tagName
                             /\ a.attributes = b.attributes
                             /\ ChildKinds(a) = ChildKinds(b)))

\* C4: optimizing the result of an optimization returns an equal tree.
C4_OptimizeIdempotent == opc = "twice" => optTwice = optOnce

\* C33: a call that optimizes returns a tree whose root is none of the
\* nodes of its input, and every node of the input has after the call the
\* fields, the attributes, the children and the parent it had before.
C33_InputUnmodified ==
    [][(optimizeFlag /\ opc \in {"start", "once"} /\ opc' # opc) =>
          LET ast == IF opc = "start" THEN 1 ELSE optObjects.once
              before == HObjectsAt(optObjects.heap, ast)
              returned == IF opc = "start" THEN optObjects'.once ELSE optObjects'.twice
          IN  \A k \in 1..Len(before) :
                 /\ optObjects'.heap[before[k]] = optObjects.heap[before[k]]
                 /\ returned # before[k]]_vars

\* An optimizing call has merged two text nodes and dropped a default
\* attribute, and the objects of its input are as the parser left them.
C33_Witness ==
    /\ opc = "once"
    /\ optimizeFlag
    /\ Len(optOnce.children) < Len(optTree.children)
    /\ \E i \in 1..Len(optTree.children) :
          /\ optTree.children[i].type = "Element"
          /\ getEssentialAttributes(optTree.children[i]) # optTree.children[i].attributes
    /\ HTreeAt(optObjects.heap, optObjects.once) = optOnce
    /\ HTreeAt(optObjects.heap, 1) = optTree

(***************************************************************************)
(* Claims about compile, checked under SpecCompile.                        *)
(***************************************************************************)
\* C7: compile returns a result for every input and every combination of
\* options; it never raises an exception.
C7_CompileNeverThrows == cpc # "thrown"

\* The contents of the text nodes of a parser's tree, in the order of their
\* creation, and the contents of the text tokens that are not whitespace or
\* are to be preserved, in stream order.
RECURSIVE TextNodeContents(_)
TextNodeContents(nodes) ==
    IF nodes = <<>> THEN <<>>
    ELSE (IF Head(nodes).type = "Text" THEN <<Head(nodes).content>> ELSE <<>>)
         \o TextNodeContents(Tail(nodes))

RECURSIVE TextTokenContents(_, _)
TextTokenContents(tokens, preserve) ==
    IF tokens = <<>> THEN <<>>
    ELSE (IF Head(tokens).type = "Text" /\ (~Head(tokens).isWhitespace \/ preserve)
          THEN <<Head(tokens).content>> ELSE <<>>)
         \o TextTokenContents(Tail(tokens), preserve)

\* C16: every text token becomes a text node, except a token of whitespace
\* when whitespace is not preserved (for the runs of the parser that no
\* error has cut short).
C16_TextTokensBecomeNodes ==
    (cpc \notin {"idle", "tokenize", "parse"}
        /\ compilation.parserResult.caught = <<>>)
        => TextNodeContents(compilation.parserResult.nodes)
             = TextTokenContents(compilation.tokens, compileOptions.preserveWhitespace)

(***************************************************************************)
(* Claims about the equivalence validator, checked under SpecVal.          *)
(***************************************************************************)

\* The nodes the claim is about: elements and texts that are not whitespace.
Meaningful(node) ==
    node.type = "Element" \/ (node.type = "Text" /\ ~node.isWhitespace)

\* b stands for a: it has a's kind, a's element name or a's text, and every
\* meaningful child of a has a child of b that stands for it.  (The order
\* of the children is left free: the weakest reading of "corresponding".)
RECURSIVE Preserves(_, _)
Preserves(a, b) ==
    /\ a.type = b.type
    /\ a.type = "Element" => LowerStr(a.tagName) = LowerStr(b.tagName)
    /\ (a.type = "Text" /\ ~a.isWhitespace) => a.content = b.content
    /\ \A i \in 1..Len(a.children) :
          Meaningful(a.children[i])
             => \E j \in 1..Len(b.children) : Preserves(a.children[i], b.children[j])

\* C21: validateEquivalence reports isEquivalent = true only if every
\* element and every text that is not whitespace of the original tree has a
\* counterpart with the same name or text in the optimized tree.
C21_EquivalentOnlyIfPreserved ==
    (vpc = "done" /\ validation.isEquivalent) => Preserves(valOriginal, valOptimized)

(***************************************************************************)
(* Claims about the AST optimizer, checked under SpecAst.                  *)
(***************************************************************************)
\* C31: the tree returned by an optimize call is the optimization of the
\* tree that the AST held when the call was made, whatever was optimized
\* or changed on the same optimizer before.
C31_ResultDependsOnInputOnly ==
    optimization # NoOptimization => optimization.root = optimizeAstNode(optimization.input)

\* C32: after an optimize call the optimizer's classes, and the class count
\* that the call reported, are those of the tree passed to that call.
C32_ClassesOfThisCallOnly ==
    optimization # NoOptimization =>
        LET own == buildStateClasses(<<>>, optimization.ast, optimization.input)
        IN  /\ stateClasses = own
            /\ optimization.count = Len(own)

\* The elements of a tree, in document order.
RECURSIVE Elements(_)
Elements(node) ==
    (IF node.type = "Element" THEN <<node>> ELSE <<>>)
        \o Concat([i \in 1..Len(node.children) |-> Elements(node.children[i])])

\* The defaults that the optimizer of the builder knows (part_005 392-410).
KnownDefault(tag, attribute, value) ==
    <<tag, attribute, value>> \in {<<"input", "type", "text">>,
                                   <<"button", "type", "button">>,
                                   <<"script", "type", "text/javascript">>}

\* C34: the optimized tree has the elements of the input; each has no
\* attribute that the input element has not, and of the attributes of the
\* input element it lacks only those whose value is a known default for
\* its tag.
C34_OnlyDefaultsRemoved ==
    optimization # NoOptimization =>
        LET before == Elements(optimization.input)
            after == Elements(optimization.root)
        IN  /\ Len(after) = Len(before)
            /\ \A k \in 1..Len(before) :
                  /\ after[k].attrs \subseteq before[k].attrs
                  /\ \A a \in before[k].attrs \ after[k].attrs :
                        KnownDefault(before[k].name, a[1], a[2])

(***************************************************************************)
(* Claims about the legacy parser, checked under SpecLegacy.               *)
(***************************************************************************)
\* C36: after any number of tokens the current insertion node of the
\* legacy parser is the node on top of its stack of open elements.
C36_CurrentIsTopOfStack ==
    lpc \in {"building", "done"} => legacy.currentNode = legacy.stack[Len(legacy.stack)]

(***************************************************************************)
(* Claims about the CSS parser, checked under SpecCss.                     *)
(***************************************************************************)
\* C35: every iteration of the loop of parseDeclarations consumes at least
\* one token or leaves the loop, so that parse ends on every finite token
\* stream.
C35_DeclarationsLoopAdvances ==
    [][(cssPc = "declarations" /\ css'.iterations # css.iterations)
          => (css'.position > css.position \/ cssPc' # "declarations")]_vars

====
